---- MODULE Spec2Model ----
(***************************************************************************)
(* Model of functions/api/survey-data.js: the survey aggregation engine    *)
(* (buildQuestionsFromHeadersAndRows and its helpers).                     *)
(*                                                                         *)
(* A JavaScript string is modelled as the sequence of its UTF-16 code      *)
(* units, each unit a one-character TLA+ string; a unit outside ASCII is   *)
(* written "U+XXXX" (one element, so lengths and indexes agree with JS).   *)
(* JS indexes are zero-based and are kept zero-based here.                 *)
(***************************************************************************)
EXTENDS Integers, Sequences, FiniteSets, TLC

VARIABLES
    headers,        \* the header row of the grid handed to the aggregator
    rows,           \* its data rows, each a sequence of cells
    questions,      \* what buildQuestionsFromHeadersAndRows returned
    answer,         \* the cell text handed to matchCanonicalOptions
    canonicalList,  \* the option list handed to matchCanonicalOptions
    matchResult,    \* what matchCanonicalOptions returned
    pc,             \* "rows": the grid is arriving; "built": questions holds the
                    \* aggregate of the grid; "cell": a cell is to be matched;
                    \* "matched": matchResult holds its match; in onRequest: the
                    \* await the invocation is suspended at, or "returned"
    env,            \* context.env of the onRequest invocation
    diag,           \* its diagnostics: the steps pushed and the fields set
    site,           \* the call of tryCsvFallback it made: "fb", "fb2", ... "fb5"
    fb,             \* the object tryCsvFallback returns
    replies,        \* the Responses onRequest has returned
    columnIndex     \* what indexByHeader returned for headers

requestVars == <<env, diag, site, fb, replies>>

vars == <<headers, rows, questions, answer, canonicalList, matchResult, pc,
          env, diag, site, fb, replies, columnIndex>>

(***************************************************************************)
(* Bounds of the model.                                                    *)
(***************************************************************************)
MaxRows == 3

MaxBulk == 23

MaxFragments == 2

MaxSelected == 2

(***************************************************************************)
(* String primitives of the JS runtime, as the code uses them.             *)
(***************************************************************************)
UPPER == <<"A","B","C","D","E","F","G","H","I","J","K","L","M","N","O","P","Q","R",
          "S","T","U","V","W","X","Y","Z">>

LOWER == <<"a","b","c","d","e","f","g","h","i","j","k","l","m","n","o","p","q","r",
          "s","t","u","v","w","x","y","z">>

Digits == <<"0","1","2","3","4","5","6","7","8","9">>

WhiteSpace == {" ", "\t", "\n", "\r", "\f", "U+00A0", "U+FEFF", "U+2028", "U+2029"}

LineTerminators == {"\n", "\r", "U+2028", "U+2029"}

WordChars == {UPPER[i] : i \in 1..26} \cup {LOWER[i] : i \in 1..26}
               \cup {Digits[i] : i \in 1..10} \cup {"_"}

LowerOf == [c \in {UPPER[i] : i \in 1..26} |-> LOWER[CHOOSE i \in 1..26 : UPPER[i] = c]]

UpperOf == [c \in {LOWER[i] : i \in 1..26} |-> UPPER[CHOOSE i \in 1..26 : LOWER[i] = c]]

toLowerCase(s) ==
    [i \in 1..Len(s) |-> IF s[i] \in DOMAIN LowerOf THEN LowerOf[s[i]] ELSE s[i]]

toUpperCase(s) ==
    [i \in 1..Len(s) |-> IF s[i] \in DOMAIN UpperOf THEN UpperOf[s[i]] ELSE s[i]]

SetMin(S) == CHOOSE x \in S : \A y \in S : x <= y

SetMax(S) == CHOOSE x \in S : \A y \in S : y <= x

trim(s) ==
    LET isText(i) == s[i] \notin WhiteSpace
        first     == CHOOSE i \in 1..Len(s) : isText(i) /\ \A j \in 1..(i - 1) : ~isText(j)
        last      == CHOOSE i \in 1..Len(s) : isText(i) /\ \A j \in (i + 1)..Len(s) : ~isText(j)
    IN  IF \A i \in 1..Len(s) : ~isText(i) THEN <<>> ELSE SubSeq(s, first, last)

\* s.indexOf(needle): zero-based index of the first occurrence, -1 when none.
indexOf(s, needle) ==
    LET at == {i \in 1..(Len(s) - Len(needle) + 1) :
                   SubSeq(s, i, i + Len(needle) - 1) = needle}
    IN  IF at = {} THEN -1 ELSE SetMin(at) - 1

includes(s, needle) == indexOf(s, needle) # -1

slice(s, from) == SubSeq(s, from + 1, Len(s))

\* s.split(","): the pieces between the separators, empty pieces kept.
RECURSIVE split(_, _)
split(s, sep) ==
    LET i == indexOf(s, <<sep>>)
    IN  IF i = -1 THEN <<s>>
        ELSE <<SubSeq(s, 1, i)>> \o split(slice(s, i + 1), sep)

\* list.join(sep)
RECURSIVE join(_, _)
join(list, sep) ==
    IF Len(list) = 0 THEN <<>>
    ELSE IF Len(list) = 1 THEN list[1]
    ELSE list[1] \o sep \o join(Tail(list), sep)

\* Array.from(new Set(list)): first occurrences, in order.
RECURSIVE Unique(_)
Unique(list) ==
    IF Len(list) = 0 THEN <<>>
    ELSE LET front == Unique(SubSeq(list, 1, Len(list) - 1))
             last  == list[Len(list)]
         IN  IF \E i \in 1..Len(front) : front[i] = last THEN front
             ELSE Append(front, last)

\* The value of a property that was never set.
undefined == <<"undefined value">>

\* NaN, as a count.
NaN == 0 - 1

(***************************************************************************)
(* Display config (exact labels/order) and the alias table.                *)
(***************************************************************************)
DISPLAY_CONFIG ==
    [aiUsage |->
       [title |-> <<"W","h","i","c","h"," ","o","f"," ","t","h","e"," ","f","o","l","l","o",
          "w","i","n","g"," ","b","e","s","t"," ","d","e","s","c","r","i","b","e",
          "s"," ","h","o","w"," ","y","o","u","'","r","e"," ","u","s","i","n","g",
          " ","A","I"," ","i","n"," ","y","o","u","r"," ","w","o","r","k"," ","t",
          "o","d","a","y","?"," ","(","s","e","l","e","c","t"," ","a","l","l"," ",
          "t","h","a","t"," ","a","p","p","l","y",")">>,
        order |-> <<
          <<"D","i","s","c","o","v","e","r","i","n","g"," ","o","r"," ","r","e","s",
          "e","a","r","c","h","i","n","g"," ","c","r","e","a","t","o","r","s">>,
          <<"D","r","a","f","t","i","n","g"," ","o","r"," ","r","e","v","i","e","w",
          "i","n","g"," ","c","r","e","a","t","i","v","e"," ","b","r","i","e","f",
          "s">>,
          <<"W","r","i","t","i","n","g"," ","e","m","a","i","l","s",","," ","c","a",
          "p","t","i","o","n","s",","," ","o","r"," ","c","a","m","p","a","i","g",
          "n"," ","c","o","p","y">>,
          <<"A","n","a","l","y","z","i","n","g"," ","c","a","m","p","a","i","g","n",
          " ","r","e","s","u","l","t","s">>,
          <<"G","e","n","e","r","a","t","i","n","g"," ","i","m","a","g","e","s"," ",
          "o","r"," ","v","i","d","e","o">>,
          <<"I","'","m"," ","n","o","t"," ","u","s","i","n","g"," ","A","I"," ","a",
          "t"," ","w","o","r","k"," ","y","e","t">> >>,
        type |-> "multiple_choice"],
     goToTool |->
       [title |-> <<"W","h","a","t","'","s"," ","y","o","u","r"," ","g","o","-","t","o"," ",
          "A","I"," ","t","o","o","l"," ","(","i","f"," ","a","n","y",")"," ","i",
          "n"," ","y","o","u","r"," ","c","u","r","r","e","n","t"," ","w","o","r",
          "k","f","l","o","w","?">>,
        type |-> "single_choice"],
     confidence |->
       [title |-> <<"H","o","w"," ","c","o","n","f","i","d","e","n","t"," ","a","r","e"," ",
          "y","o","u"," ","i","n"," ","u","s","i","n","g"," ","A","I"," ","t","o",
          "o","l","s"," ","i","n"," ","y","o","u","r"," ","c","r","e","a","t","o",
          "r"," ","m","a","r","k","e","t","i","n","g"," ","w","o","r","k","?">>,
        scale |-> << <<"1">>, <<"2">>, <<"3">>, <<"4">>, <<"5">> >>,
        type |-> "scale"],
     curiosity |->
       [title |-> <<"W","h","i","c","h"," ","a","r","e","a","s"," ","o","f"," ","A","I"," ",
          "a","r","e"," ","y","o","u"," ","m","o","s","t"," ","c","u","r","i","o",
          "u","s"," ","t","o"," ","l","e","a","r","n"," ","m","o","r","e"," ","a",
          "b","o","u","t"," ","t","h","i","s"," ","s","e","a","s","o","n","?"," ",
          "(","p","i","c","k"," ","t","o","p"," ","3",")">>,
        order |-> <<
          <<"A","I"," ","f","o","r"," ","c","r","e","a","t","o","r"," ","d","i","s",
          "c","o","v","e","r","y">>,
          <<"A","I"," ","f","o","r"," ","c","a","m","p","a","i","g","n"," ","p","l",
          "a","n","n","i","n","g"," ","&"," ","b","r","i","e","f","i","n","g">>,
          <<"A","I"," ","f","o","r"," ","r","e","v","i","e","w","i","n","g"," ","c",
          "r","e","a","t","o","r"," ","c","o","n","t","e","n","t">>,
          <<"A","I","-","g","e","n","e","r","a","t","e","d"," ","c","o","n","t","e",
          "n","t"," ","(","v","i","d","e","o",","," ","i","m","a","g","e","s",",",
          " ","v","o","i","c","e",")">>,
          <<"A","I"," ","a","s","s","i","s","t","a","n","t","s"," ","&"," ","i","n",
          "t","e","r","n","a","l"," ","t","o","o","l","i","n","g">>,
          <<"E","t","h","i","c","a","l"," ","i","m","p","l","i","c","a","t","i","o",
          "n","s"," ","/"," ","d","i","s","c","l","o","s","u","r","e"," ","g","u",
          "i","d","e","l","i","n","e","s">>,
          <<"A","I"," ","a","n","d"," ","b","r","a","n","d"," ","s","a","f","e","t",
          "y">>,
          <<"H","o","w"," ","c","r","e","a","t","o","r","s"," ","t","h","e","m","s",
          "e","l","v","e","s"," ","a","r","e"," ","u","s","i","n","g"," ","A","I">>,
          <<"A","I"," ","a","n","d"," ","t","h","e"," ","f","u","t","u","r","e"," ",
          "o","f"," ","c","r","e","a","t","o","r"," ","p","l","a","t","f","o","r",
          "m","s">> >>,
        type |-> "multiple_choice"],
     topPriority |->
       [title |-> <<"W","h","a","t","'","s"," ","y","o","u","r"," ","t","o","p"," ","p","r",
          "i","o","r","i","t","y"," ","f","o","r"," ","t","h","i","s"," ","s","e",
          "a","s","o","n","?"," ","(","p","i","c","k"," ","1",")">>,
        order |-> <<
          <<"L","e","a","r","n","i","n","g"," ","f","r","o","m"," ","g","u","e","s",
          "t"," ","s","p","e","a","k","e","r","s">>,
          <<"S","w","a","p","p","i","n","g"," ","t","a","c","t","i","c","s","/","t",
          "o","o","l","s"," ","w","i","t","h"," ","p","e","e","r","s">>,
          <<"D","i","s","c","o","v","e","r","i","n","g"," ","n","e","w"," ","A","I",
          " ","u","s","e"," ","c","a","s","e","s">>,
          <<"C","o","n","n","e","c","t","i","n","g"," ","1",":","1"," ","w","i","t",
          "h"," ","o","t","h","e","r","s"," ","i","n"," ","s","i","m","i","l","a",
          "r"," ","r","o","l","e","s">>,
          <<"H","a","v","i","n","g"," ","a"," ","r","e","g","u","l","a","r"," ","s",
          "p","a","c","e"," ","t","o"," ","r","e","f","l","e","c","t"," ","a","n",
          "d"," ","s","t","a","y"," ","s","h","a","r","p">> >>,
        type |-> "single_choice"],
     creatorAreas |->
       [title |-> <<"W","h","i","c","h"," ","a","r","e","a","s"," ","o","f"," ","c","r","e",
          "a","t","o","r"," ","m","a","r","k","e","t","i","n","g"," ","w","o","u",
          "l","d"," ","y","o","u"," ","b","e"," ","m","o","s","t"," ","i","n","t",
          "e","r","e","s","t","e","d"," ","i","n"," ","t","e","s","t","i","n","g",
          " ","A","I"," ","t","o","o","l","s"," ","f","o","r","?">>,
        order |-> <<
          <<"C","r","e","a","t","o","r"," ","D","i","s","c","o","v","e","r","y"," ",
          "&"," ","V","e","t","t","i","n","g">>,
          <<"B","r","i","e","f"," ","G","e","n","e","r","a","t","i","o","n"," ","&",
          " ","C","a","m","p","a","i","g","n"," ","P","l","a","n","n","i","n","g">>,
          <<"O","u","t","r","e","a","c","h"," ","&"," ","C","o","m","m","u","n","i",
          "c","a","t","i","o","n">>,
          <<"C","o","n","t","e","n","t"," ","R","e","v","i","e","w"," ","&"," ","B",
          "r","a","n","d"," ","S","a","f","e","t","y">>,
          <<"P","a","y","m","e","n","t",","," ","C","o","n","t","r","a","c","t","i",
          "n","g"," ","&"," ","L","e","g","a","l"," ","A","u","t","o","m","a","t",
          "i","o","n">>,
          <<"P","e","r","f","o","r","m","a","n","c","e"," ","A","n","a","l","y","s",
          "i","s"," ","&"," ","R","e","p","o","r","t","i","n","g">>,
          <<"C","o","m","p","e","t","i","t","o","r"," ","M","o","n","i","t","o","r",
          "i","n","g"," ","&"," ","T","r","e","n","d"," ","T","r","a","c","k","i",
          "n","g">>,
          <<"C","r","e","a","t","i","v","e"," ","C","o","-","P","i","l","o","t","s",
          " ","f","o","r"," ","U","G","C">>,
          <<"M","a","r","k","e","t","p","l","a","c","e"," ","O","p","t","i","m","i",
          "z","a","t","i","o","n"," ","(","e",".","g","."," ","T","i","k","T","o",
          "k"," ","S","h","o","p",","," ","A","m","a","z","o","n"," ","I","n","f",
          "l","u","e","n","c","e","r",")">>,
          <<"I","n","t","e","r","n","a","l"," ","K","n","o","w","l","e","d","g","e",
          " ","S","y","s","t","e","m","s"," ","&"," ","I","n","s","t","i","t","u",
          "t","i","o","n","a","l"," ","M","e","m","o","r","y">> >>,
        type |-> "multiple_choice"]]

\* ALIASES[opt] || []
ALIASES(opt) ==
    CASE opt = <<"A","I"," ","f","o","r"," ","c","a","m","p","a","i","g","n"," ","p","l",
          "a","n","n","i","n","g"," ","&"," ","b","r","i","e","f","i","n","g">> ->
           << <<"A","I"," ","f","o","r"," ","c","a","m","p","a","i","g","n"," ","p","l",
          "a","n","n","i","n","g"," ","a","n","d"," ","b","r","i","e","f","i","n",
          "g">>, <<"c","a","m","p","a","i","g","n"," ","p","l","a","n","n","i","n","g"," ",
          "&"," ","b","r","i","e","f","i","n","g">> >>
      [] opt = <<"A","I"," ","a","s","s","i","s","t","a","n","t","s"," ","&"," ","i","n",
          "t","e","r","n","a","l"," ","t","o","o","l","i","n","g">> ->
           << <<"A","I"," ","a","s","s","i","s","t","a","n","t","s"," ","a","n","d"," ",
          "i","n","t","e","r","n","a","l"," ","t","o","o","l","i","n","g">>, <<"a","s","s","i","s","t","a","n","t","s"," ","&"," ","t","o","o","l","i",
          "n","g">> >>
      [] opt = <<"A","I"," ","f","o","r"," ","c","r","e","a","t","o","r"," ","d","i","s",
          "c","o","v","e","r","y">> ->
           << <<"c","r","e","a","t","o","r"," ","d","i","s","c","o","v","e","r","y">>, <<"a","i"," ","f","o","r"," ","d","i","s","c","o","v","e","r","y">> >>
      [] opt = <<"A","I"," ","a","n","d"," ","t","h","e"," ","f","u","t","u","r","e"," ",
          "o","f"," ","c","r","e","a","t","o","r"," ","p","l","a","t","f","o","r",
          "m","s">> ->
           << <<"f","u","t","u","r","e"," ","o","f"," ","c","r","e","a","t","o","r"," ",
          "p","l","a","t","f","o","r","m","s">>, <<"c","r","e","a","t","o","r"," ","p","l","a","t","f","o","r","m","s"," ",
          "(","f","u","t","u","r","e",")">> >>
      [] opt = <<"A","I"," ","f","o","r"," ","r","e","v","i","e","w","i","n","g"," ","c",
          "r","e","a","t","o","r"," ","c","o","n","t","e","n","t">> ->
           << <<"r","e","v","i","e","w","i","n","g"," ","c","r","e","a","t","o","r"," ",
          "c","o","n","t","e","n","t">>, <<"c","o","n","t","e","n","t"," ","r","e","v","i","e","w"," ","(","a","i",
          ")">> >>
      [] OTHER -> << >>

(***************************************************************************)
(* IEEE-754 double arithmetic, as far as Math.round((count / total) * 100) *)
(* needs it.  A double is a significand of MantissaBits bits and a count   *)
(* of fractional bits (value = sig / 2^frac); division and multiplication  *)
(* round to nearest, ties to even.  The significand is held as a sequence  *)
(* of LimbBits-bit limbs, least significant first, so that every           *)
(* intermediate value fits TLC's 32-bit integers (total < 2^12).           *)
(***************************************************************************)
MantissaBits == 53

LimbBits == 18

Base == 2^LimbBits

FractionLimbs == 4

RECURSIVE BitLen(_)
BitLen(n) == IF n = 0 THEN 0 ELSE 1 + BitLen(n \div 2)

LimbAt(x, i) == IF i \in 1..Len(x) THEN x[i] ELSE 0

LimbsBitLen(x) ==
    LET used == {i \in 1..Len(x) : x[i] # 0}
    IN  IF used = {} THEN 0
        ELSE (SetMax(used) - 1) * LimbBits + BitLen(x[SetMax(used)])

LimbsShiftRight(x, k) ==
    LET d == k \div LimbBits
        m == k % LimbBits
    IN  [i \in 1..(Len(x) - d) |->
           (LimbAt(x, i + d) \div 2^m) + (LimbAt(x, i + d + 1) % 2^m) * 2^(LimbBits - m)]

\* bit k (0 = least significant)
LimbsBit(x, k) == (LimbAt(x, (k \div LimbBits) + 1) \div 2^(k % LimbBits)) % 2

\* no bit below bit k is set
LimbsLowZero(x, k) ==
    /\ \A i \in 1..(k \div LimbBits) : LimbAt(x, i) = 0
    /\ LimbAt(x, (k \div LimbBits) + 1) % 2^(k % LimbBits) = 0

\* x * m + carry
RECURSIVE LimbsMulAdd(_, _, _)
LimbsMulAdd(x, m, carry) ==
    IF Len(x) = 0 THEN (IF carry = 0 THEN <<>> ELSE <<carry>>)
    ELSE LET v == x[1] * m + carry
         IN  <<v % Base>> \o LimbsMulAdd(Tail(x), m, v \div Base)

\* The double nearest to x / 2^frac (plus a nonzero tail below x when sticky),
\* ties to even.
RoundToDouble(x, frac, sticky) ==
    LET drop == LimbsBitLen(x) - MantissaBits
    IN  IF drop <= 0 THEN [sig |-> x, frac |-> frac]
        ELSE LET sig0 == LimbsShiftRight(x, drop)
                 guard == LimbsBit(x, drop - 1)
                 rest  == sticky \/ ~LimbsLowZero(x, drop - 1)
                 up    == guard = 1 /\ (rest \/ LimbsBit(sig0, 0) = 1)
                 sig1  == IF up THEN LimbsMulAdd(sig0, 1, 1) ELSE sig0
             IN  IF LimbsBitLen(sig1) > MantissaBits
                 THEN [sig |-> LimbsShiftRight(sig1, 1), frac |-> frac - drop - 1]
                 ELSE [sig |-> sig1, frac |-> frac - drop]

\* Long division: n more limbs of rem / total, least significant first.
RECURSIVE DivideLimbs(_, _, _)
DivideLimbs(rem, total, n) ==
    IF n = 0 THEN [limbs |-> <<>>, rem |-> rem]
    ELSE LET d    == (rem * Base) \div total
             next == DivideLimbs((rem * Base) % total, total, n - 1)
         IN  [limbs |-> Append(next.limbs, d), rem |-> next.rem]

\* count / total, for integers count >= 1, total >= 1
DoubleDivide(count, total) ==
    LET q == DivideLimbs(count % total, total, FractionLimbs)
    IN  RoundToDouble(Append(q.limbs, count \div total), FractionLimbs * LimbBits,
                      q.rem # 0)

\* x * 100
DoubleTimes100(x) == RoundToDouble(LimbsMulAdd(x.sig, 100, 0), x.frac, FALSE)

\* Math.round(x) for 0 <= x < 2^31: the integer part, plus one when the
\* fraction is at least one half.
MathRound(x) ==
    LET int == LimbsShiftRight(x.sig, x.frac)
    IN  LimbAt(int, 1) + Base * LimbAt(int, 2)
          + (IF x.frac >= 1 THEN LimbsBit(x.sig, x.frac - 1) ELSE 0)

\* Math.round((count / total) * 100)
Percentage(count, total) ==
    IF count = 0 THEN 0 ELSE MathRound(DoubleTimes100(DoubleDivide(count, total)))

(***************************************************************************)
(* The regular expressions of the matcher.                                 *)
(***************************************************************************)
startsWithIgnoreCase(s, prefix) ==
    Len(s) >= Len(prefix) /\ toLowerCase(SubSeq(s, 1, Len(prefix))) = toLowerCase(prefix)

\* the longest prefix of s made of units in set, removed
stripLeading(s, set) ==
    LET keep == {i \in 1..Len(s) : s[i] \notin set}
    IN  IF keep = {} THEN <<>> ELSE SubSeq(s, SetMin(keep), Len(s))

\* /^other\b[:\-\s]*$/i.test(s)
isPlainOther(s) ==
    /\ startsWithIgnoreCase(s, <<"o","t","h","e","r">>)
    /\ \A i \in 6..Len(s) : s[i] \in {":", "-"} \cup WhiteSpace

\* /^\(empty\)|^na$/i.test(s)
isPlaceholder(s) ==
    startsWithIgnoreCase(s, <<"(","e","m","p","t","y",")">>) \/ toLowerCase(s) = <<"n","a">>

\* s.replace(/^other\b[:\-\s]*/i, "")
stripOtherPrefix(s) ==
    IF startsWithIgnoreCase(s, <<"o","t","h","e","r">>) /\ (Len(s) = 5 \/ s[6] \notin WordChars)
    THEN stripLeading(slice(s, 5), {":", "-"} \cup WhiteSpace)
    ELSE s

\* s.replace(/^"(.+)"$/, "$1")
stripQuotes(s) ==
    IF /\ Len(s) >= 3
       /\ s[1] = "\"" /\ s[Len(s)] = "\""
       /\ \A i \in 2..(Len(s) - 1) : s[i] \notin LineTerminators
    THEN SubSeq(s, 2, Len(s) - 1)
    ELSE s

\* the matched option left in the remainder
removeFirstIgnoreCase_kept(s, opt) == SubSeq(s, 1, Len(s))

\* consumed.replace(new RegExp(escaped(opt), "i"), ""): the first occurrence
\* of opt, letter case ignored, removed.
removeFirstIgnoreCase(s, opt) ==
    LET i == indexOf(toLowerCase(s), toLowerCase(opt))
    IN  IF i = -1 THEN s ELSE SubSeq(s, 1, i) \o slice(s, i + Len(opt))

(***************************************************************************)
(* Match canonical options by substring (case-insensitive) + alias         *)
(* support.  Leftovers (non-canonical text) are returned for "Other        *)
(* responses".                                                             *)
(***************************************************************************)
optionMatches(lower, opt) ==
    LET names == <<opt>> \o ALIASES(opt)
    IN  \E i \in 1..Len(names) : indexOf(lower, toLowerCase(names[i])) # -1

\* matchEach with hits an array that gets the option once for each of its
\* names found in the cell
RECURSIVE matchEach_perName(_, _, _, _, _)
matchEach_perName(lower, list, k, hits, consumed) ==
    IF k > Len(list) THEN [hits |-> hits, consumed |-> consumed]
    ELSE LET names == <<list[k]>> \o ALIASES(list[k])
             found == {i \in 1..Len(names) : indexOf(lower, toLowerCase(names[i])) # -1}
         IN  matchEach_perName(lower, list, k + 1,
                               hits \o [i \in 1..Cardinality(found) |-> list[k]],
                               IF found # {} THEN removeFirstIgnoreCase(consumed, list[k])
                               ELSE consumed)

\* canonicalList.forEach(...) from option k on: the hits (a Set, in insertion
\* order) and the consumed text.
RECURSIVE matchEach(_, _, _, _, _)
matchEach(lower, list, k, hits, consumed) ==
    IF k > Len(list) THEN [hits |-> hits, consumed |-> consumed]
    ELSE IF optionMatches(lower, list[k])
         THEN matchEach(lower, list, k + 1, Unique(Append(hits, list[k])),
                        removeFirstIgnoreCase(consumed, list[k]))
         ELSE matchEach(lower, list, k + 1, hits, consumed)

isLeftover(s) == Len(s) > 1 /\ ~isPlainOther(s) /\ ~isPlaceholder(s)

matchCanonicalOptions(a, list) ==
    LET m      == matchEach(toLowerCase(a), list, 1, <<>>, a)
        pieces == split(m.consumed, ",")
    IN  [hits |-> m.hits,
         leftovers |-> SelectSeq([i \in 1..Len(pieces) |-> trim(pieces[i])], isLeftover)]

cleanOtherText(s) ==
    LET t == trim(s)
    IN  IF t = <<>> \/ isPlainOther(t) THEN <<>>
        ELSE LET u == trim(stripQuotes(stripLeading(stripOtherPrefix(t),
                        {"-", "U+2013", "U+2014", ":"} \cup WhiteSpace)))
             IN  IF u # <<>> /\ ~isPlaceholder(u) THEN u ELSE <<>>

isNonEmpty(s) == s # <<>>

cleanOtherTextList(list) ==
    Unique(SelectSeq([i \in 1..Len(list) |-> cleanOtherText(list[i])], isNonEmpty))

normalizeTool(s) ==
    LET t == trim(toLowerCase(s))
    IN  IF t = <<>> THEN <<>>
        ELSE IF \/ t = <<"g","p","t">>
                \/ includes(t, <<"c","h","a","t"," ","g","p","t">>)
                \/ includes(t, <<"c","h","a","t","g","p","t">>)
                \/ includes(t, <<"o","p","e","n","a","i">>) THEN <<"C","h","a","t","G","P","T">>
        ELSE IF includes(t, <<"c","l","a","u","d","e">>) THEN <<"C","l","a","u","d","e">>
        ELSE IF includes(t, <<"g","e","m","i","n","i">>) \/ includes(t, <<"b","a","r","d">>) THEN <<"G","e","m","i","n","i">>
        ELSE IF includes(t, <<"g","a","m","m","a">>) THEN <<"G","a","m","m","a">>
        ELSE IF \/ includes(t, <<"d","o","n","U+2019","t"," ","h","a","v","e">>)
                \/ includes(t, <<"d","o","n","t"," ","h","a","v","e">>)
                \/ t = <<"n","o","n","e">>
                \/ includes(t, <<"n","o"," ","t","o","o","l">>) THEN <<"N","o","n","e">>
        ELSE toUpperCase(SubSeq(s, 1, 1)) \o slice(s, 1)

(***************************************************************************)
(* Plain JS objects used as maps: a sequence of [key, value] entries in    *)
(* insertion order.  Object.keys lists the array-index keys first, in      *)
(* ascending numeric order, then the other keys in insertion order.        *)
(***************************************************************************)
objectHas(obj, k) == \E i \in 1..Len(obj) : obj[i].key = k

\* obj[k] || 0
objectGetOrZero(obj, k) ==
    IF objectHas(obj, k) THEN obj[CHOOSE i \in 1..Len(obj) : obj[i].key = k].value ELSE 0

\* obj[k] = v
objectSet(obj, k, v) ==
    IF objectHas(obj, k)
    THEN [i \in 1..Len(obj) |-> IF obj[i].key = k THEN [key |-> k, value |-> v] ELSE obj[i]]
    ELSE Append(obj, [key |-> k, value |-> v])

isDigit(c) == \E i \in 1..10 : Digits[i] = c

digitValue(c) == (CHOOSE i \in 1..10 : Digits[i] = c) - 1

\* a < b for digit strings of equal length
RECURSIVE digitsLess(_, _)
digitsLess(a, b) ==
    IF Len(a) = 0 THEN FALSE
    ELSE IF a[1] # b[1] THEN digitValue(a[1]) < digitValue(b[1])
    ELSE digitsLess(Tail(a), Tail(b))

\* a canonical numeric string below 2^32 - 1
isArrayIndex(k) ==
    /\ Len(k) >= 1
    /\ \A i \in 1..Len(k) : isDigit(k[i])
    /\ (Len(k) = 1 \/ k[1] # "0")
    /\ (Len(k) < 10 \/ (Len(k) = 10 /\ digitsLess(k, <<"4","2","9","4","9","6","7","2","9","5">>)))

indexLess(a, b) == Len(a) < Len(b) \/ (Len(a) = Len(b) /\ digitsLess(a, b))

RECURSIVE sortIndexKeys(_)
sortIndexKeys(keys) ==
    IF keys = {} THEN <<>>
    ELSE LET least == CHOOSE k \in keys : \A other \in keys \ {k} : indexLess(k, other)
         IN  <<least>> \o sortIndexKeys(keys \ {least})

isOrdinaryKey(k) == ~isArrayIndex(k)

objectKeys(obj) ==
    LET keys == [i \in 1..Len(obj) |-> obj[i].key]
    IN  sortIndexKeys({keys[i] : i \in {j \in 1..Len(keys) : isArrayIndex(keys[j])}})
          \o SelectSeq(keys, isOrdinaryKey)

\* list.sort(function (a, b) { return b.count - a.count; }): stable, by
\* descending count.
RECURSIVE sortByCountDescending(_)
sortByCountDescending(list) ==
    IF Len(list) <= 1 THEN list
    ELSE LET front == sortByCountDescending(SubSeq(list, 1, Len(list) - 1))
             last  == list[Len(list)]
             ahead == {i \in 1..Len(front) : front[i].count >= last.count}
             n     == IF ahead = {} THEN 0 ELSE SetMax(ahead)
         IN  SubSeq(front, 1, n) \o <<last>> \o SubSeq(front, n + 1, Len(front))

(***************************************************************************)
(* Header lookup and the respondent denominator.                           *)
(***************************************************************************)
\* String(row[i] || "") for a row of string cells; a missing cell is undefined
cell(row, i) == IF i >= 0 /\ i < Len(row) THEN row[i + 1] ELSE <<>>

get(row, i) == trim(cell(row, i))

\* find, had it compared the header and the needle as written
find_caseSensitive(hdrs, needle) ==
    LET at == {i \in 1..Len(hdrs) : indexOf(hdrs[i], needle) # -1}
    IN  IF at = {} THEN -1 ELSE SetMin(at) - 1

\* headers.findIndex(h => h.toLowerCase().indexOf(needle.toLowerCase()) !== -1)
find(hdrs, needle) ==
    LET at == {i \in 1..Len(hdrs) :
                  indexOf(toLowerCase(hdrs[i]), toLowerCase(needle)) # -1}
    IN  IF at = {} THEN -1 ELSE SetMin(at) - 1

NEEDLES ==
    [aiUsage      |-> <<"W","h","i","c","h"," ","o","f"," ","t","h","e"," ","f","o","l","l","o",
          "w","i","n","g"," ","b","e","s","t"," ","d","e","s","c","r","i","b","e",
          "s">>,
     goToTool     |-> <<"W","h","a","t","'","s"," ","y","o","u","r"," ","g","o","-","t","o"," ",
          "A","I"," ","t","o","o","l">>,
     confidence   |-> <<"H","o","w"," ","c","o","n","f","i","d","e","n","t"," ","a","r","e"," ",
          "y","o","u">>,
     curiosity    |-> <<"W","h","i","c","h"," ","a","r","e","a","s"," ","o","f"," ","A","I"," ",
          "a","r","e"," ","y","o","u"," ","m","o","s","t"," ","c","u","r","i","o",
          "u","s">>,
     topPriority  |-> <<"W","h","a","t","'","s"," ","y","o","u","r"," ","t","o","p"," ","p","r",
          "i","o","r","i","t","y"," ","f","o","r"," ","t","h","i","s"," ","s","e",
          "a","s","o","n">>,
     creatorAreas |-> <<"W","h","i","c","h"," ","a","r","e","a","s"," ","o","f"," ","c","r","e",
          "a","t","o","r"," ","m","a","r","k","e","t","i","n","g">>]

indexByHeader(hdrs, needles) == [k \in DOMAIN needles |-> find(hdrs, needles[k])]

findRespondentIdIndex(hdrs) ==
    LET at == {i \in 1..Len(hdrs) : includes(toLowerCase(hdrs[i]), <<"r","e","s","p","o","n","d","e","n","t"," ","i","d">>)}
    IN  IF at = {} THEN -1 ELSE SetMin(at) - 1

\* a generator whose draws repeat, sooner or later according to the seed
MathRandom_repeating(seed, n) == <<seed, n % seed>>

\* Math.random(): the n-th draw of the generator in a run seeded with seed.
\* Draws of one run are taken to be pairwise distinct.
MathRandom(seed, n) == <<seed, n>>

\* respondentsWhoAnswered without the respondent-id lookup: every row that
\* answered column colIdx is keyed by its own draw.
respondentsWhoAnswered_perRow(rws, colIdx, respondentIdx, seed) ==
    IF colIdx < 0 THEN {}
    ELSE {<<"__row_", MathRandom(seed, i)>> :
            i \in {j \in 1..Len(rws) : trim(cell(rws[j], colIdx)) # <<>>}}

\* The Set of respondent keys of the rows that answered column colIdx; the
\* row at position i draws MathRandom(seed, i) when it has no respondent id.
respondentsWhoAnswered(rws, colIdx, respondentIdx, seed) ==
    IF colIdx < 0 THEN {}
    ELSE LET answered == {i \in 1..Len(rws) : trim(cell(rws[i], colIdx)) # <<>>}
             rid(i)   == IF respondentIdx >= 0 THEN trim(cell(rws[i], respondentIdx))
                         ELSE <<>>
         IN  {IF rid(i) # <<>> THEN <<"id", rid(i)>>
              ELSE <<"__row_", MathRandom(seed, i)>> : i \in answered}

(***************************************************************************)
(* Number(text) and String(number), for the decimal literals the scale     *)
(* column is drawn from: an optional sign, digits, at most one point.      *)
(* Every other text is NaN (exponent, radix-prefixed and Infinity literals *)
(* are not drawn).  A number is its sign, integer digits without leading   *)
(* zeros and fraction digits without trailing zeros; the literals drawn    *)
(* are short enough to be exact as doubles.                                *)
(***************************************************************************)
stripTrailing(s, set) ==
    LET keep == {i \in 1..Len(s) : s[i] \notin set}
    IN  IF keep = {} THEN <<>> ELSE SubSeq(s, 1, SetMax(keep))

Number(s) ==
    LET neg   == Len(s) >= 1 /\ s[1] = "-"
        body  == IF Len(s) >= 1 /\ s[1] \in {"+", "-"} THEN Tail(s) ELSE s
        point == indexOf(body, <<".">>)
        int   == IF point = -1 THEN body ELSE SubSeq(body, 1, point)
        frac  == IF point = -1 THEN <<>> ELSE slice(body, point + 1)
        wellFormed == /\ \A i \in 1..Len(int) : isDigit(int[i])
                      /\ \A i \in 1..Len(frac) : isDigit(frac[i])
                      /\ Len(int) + Len(frac) >= 1
    IN  IF s = <<>> THEN [nan |-> FALSE, neg |-> FALSE, int |-> <<>>, frac |-> <<>>]
        ELSE IF ~wellFormed THEN [nan |-> TRUE, neg |-> FALSE, int |-> <<>>, frac |-> <<>>]
        ELSE [nan |-> FALSE, neg |-> neg,
              int |-> stripLeading(int, {"0"}), frac |-> stripTrailing(frac, {"0"})]

\* the range test with its upper end left out: n >= 1 && n < 5
inScaleRange_exclusive(n) ==
    /\ ~n.nan /\ ~n.neg
    /\ Len(n.int) = 1
    /\ digitValue(n.int[1]) < 5

\* n >= 1 && n <= 5
inScaleRange(n) ==
    /\ ~n.nan /\ ~n.neg
    /\ Len(n.int) = 1
    /\ (digitValue(n.int[1]) < 5 \/ (digitValue(n.int[1]) = 5 /\ n.frac = <<>>))

\* String(n) for 1 <= n <= 5
String(n) == IF n.frac = <<>> THEN n.int ELSE n.int \o <<".">> \o n.frac

(***************************************************************************)
(* Push ordered responses and append an "Other" bar for verbatims (if any) *)
(***************************************************************************)
\* orderedResponses over Object.keys(countsMap) instead of order
orderedResponses_allKeys(countsMap, respondentsTotal, order) ==
    LET isCounted(label) == objectGetOrZero(countsMap, label) > 0
        labels == SelectSeq(objectKeys(countsMap), isCounted)
    IN  [i \in 1..Len(labels) |->
            [text |-> labels[i],
             count |-> objectGetOrZero(countsMap, labels[i]),
             percentage |-> Percentage(objectGetOrZero(countsMap, labels[i]),
                                       respondentsTotal)]]

\* orderedResponses followed by a sort on count, largest first
orderedResponses_byCount(countsMap, respondentsTotal, order) ==
    LET isCounted(label) == objectGetOrZero(countsMap, label) > 0
        labels == SelectSeq(order, isCounted)
    IN  sortByCountDescending(
            [i \in 1..Len(labels) |->
                [text |-> labels[i],
                 count |-> objectGetOrZero(countsMap, labels[i]),
                 percentage |-> Percentage(objectGetOrZero(countsMap, labels[i]),
                                           respondentsTotal)]])

orderedResponses(countsMap, respondentsTotal, order) ==
    LET bucket(label) ==
            [text |-> label,
             count |-> objectGetOrZero(countsMap, label),
             percentage |-> Percentage(objectGetOrZero(countsMap, label), respondentsTotal)]
        isCounted(label) == objectGetOrZero(countsMap, label) > 0
        labels == SelectSeq(order, isCounted)
    IN  [i \in 1..Len(labels) |-> bucket(labels[i])]

\* pushOrderedWithOther without the test of respondentsTotal
pushOrderedWithOther_zeroToo(arr, cfgKey, countsMap, otherList, respondentsTotal, order) ==
    IF cfgKey \notin DOMAIN DISPLAY_CONFIG THEN arr
    ELSE LET cfg       == DISPLAY_CONFIG[cfgKey]
             responses == orderedResponses(countsMap, respondentsTotal, order)
             verbatim  == SelectSeq(otherList, isNonEmpty)
             other     == [text |-> <<"O","t","h","e","r">>,
                           count |-> Len(verbatim),
                           percentage |-> Percentage(Len(verbatim), respondentsTotal)]
         IN  Append(arr,
               [question |-> cfg.title,
                type |-> cfg.type,
                responses |-> IF Len(verbatim) > 0 THEN Append(responses, other)
                              ELSE responses,
                total_responses |-> respondentsTotal,
                other_responses |-> IF Len(verbatim) > 0 THEN join(verbatim, <<","," ">>)
                                    ELSE undefined])

pushOrderedWithOther(arr, cfgKey, countsMap, otherList, respondentsTotal, order) ==
    IF cfgKey \notin DOMAIN DISPLAY_CONFIG \/ respondentsTotal = 0 THEN arr
    ELSE LET cfg       == DISPLAY_CONFIG[cfgKey]
             responses == orderedResponses(countsMap, respondentsTotal, order)
             verbatim  == SelectSeq(otherList, isNonEmpty)
             other     == [text |-> <<"O","t","h","e","r">>,
                           count |-> Len(verbatim),
                           percentage |-> Percentage(Len(verbatim), respondentsTotal)]
         IN  Append(arr,
               [question |-> cfg.title,
                type |-> cfg.type,
                responses |-> IF Len(verbatim) > 0 THEN Append(responses, other)
                              ELSE responses,
                total_responses |-> respondentsTotal,
                other_responses |-> IF Len(verbatim) > 0 THEN join(verbatim, <<","," ">>)
                                    ELSE undefined])

(***************************************************************************)
(* Aggregation: one block per question of buildQuestionsFromHeadersAndRows *)
(***************************************************************************)
\* hits.forEach(function (h) { counts[h] += 1; })
RECURSIVE countHits(_, _)
countHits(counts, hits) ==
    IF Len(hits) = 0 THEN counts
    ELSE countHits(objectSet(counts, hits[1], objectGetOrZero(counts, hits[1]) + 1),
                   Tail(hits))

\* rows.forEach over a multi-select column, from row k on
RECURSIVE tallyOptions(_, _, _, _, _, _)
tallyOptions(rws, k, colIdx, order, counts, others) ==
    IF k > Len(rws) THEN [counts |-> counts, others |-> others]
    ELSE LET res == matchCanonicalOptions(get(rws[k], colIdx), order)
         IN  tallyOptions(rws, k + 1, colIdx, order, countHits(counts, res.hits),
                          others \o res.leftovers)

zeroCounts(order) == [i \in 1..Len(order) |-> [key |-> order[i], value |-> 0]]

\* blocks 1, 4 and 6: aiUsage, curiosity, creatorAreas
multipleChoiceQuestion(arr, cfgKey, colIdx, rws, respondentIdx, seed) ==
    IF colIdx > -1
    THEN LET order    == DISPLAY_CONFIG[cfgKey].order
             tally    == tallyOptions(rws, 1, colIdx, order, zeroCounts(order), <<>>)
             answered == Cardinality(respondentsWhoAnswered(rws, colIdx, respondentIdx, seed))
         IN  pushOrderedWithOther(arr, cfgKey, tally.counts,
                                  cleanOtherTextList(tally.others), answered, order)
    ELSE arr


(***************************************************************************)
(* obj[key] = (obj[key] || 0) + 1 for every key of every list of lists,    *)
(* taken in order: each key of obj gains its number of occurrences, and    *)
(* the keys that obj did not have follow in the order of their first       *)
(* occurrence, each with its number of occurrences.                        *)
(***************************************************************************)
occurrences(lists) == UNION {{<<k, j>> : j \in 1..Len(lists[k])} : k \in 1..Len(lists)}

tally(obj, lists) ==
    LET occ          == occurrences(lists)
        at(key)      == {o \in occ : lists[o[1]][o[2]] = key}
        firstOf(key) == LET k == SetMin({o[1] : o \in at(key)})
                        IN  <<k, SetMin({o[2] : o \in {p \in at(key) : p[1] = k}})>>
        earlier(o, p) == o[1] < p[1] \/ (o[1] = p[1] /\ o[2] < p[2])
        newKeys      == {lists[o[1]][o[2]] : o \in occ} \ {obj[i].key : i \in 1..Len(obj)}
        rank(key)    == Cardinality({other \in newKeys : earlier(firstOf(other), firstOf(key))})
        nth(n)       == CHOOSE key \in newKeys : rank(key) = n - 1
    IN  [i \in 1..Len(obj) |->
           [key |-> obj[i].key, value |-> obj[i].value + Cardinality(at(obj[i].key))]]
        \o [n \in 1..Cardinality(newKeys) |->
              [key |-> nth(n), value |-> Cardinality(at(nth(n)))]]

\* raw.split(",").map(trim).filter(Boolean), or [raw] when that is empty
toolItems(raw) ==
    LET pieces == split(raw, ",")
        items  == SelectSeq([i \in 1..Len(pieces) |-> trim(pieces[i])], isNonEmpty)
    IN  IF Len(items) > 0 THEN items ELSE <<raw>>

\* the normalized, non-empty tool names of one cell
toolNames(raw) ==
    LET items == toolItems(raw)
    IN  SelectSeq([j \in 1..Len(items) |-> normalizeTool(items[j])], isNonEmpty)

\* rows.forEach over the tool column: mapTool[n] = (mapTool[n] || 0) + 1
tallyTools(rws, colIdx, mapTool) ==
    tally(mapTool, [k \in 1..Len(rws) |-> toolNames(get(rws[k], colIdx))])

isKept(r) == r.percentage >= 10

isSmall(r) == r.percentage < 10

RECURSIVE sumCounts(_)
sumCounts(list) == IF Len(list) = 0 THEN 0 ELSE list[1].count + sumCounts(Tail(list))

\* block 2: go-to tool
goToToolQuestion(arr, colIdx, rws, respondentIdx, seed) ==
    IF colIdx > -1
    THEN LET mapTool   == tallyTools(rws, colIdx, <<>>)
             totalTool == Cardinality(respondentsWhoAnswered(rws, colIdx, respondentIdx, seed))
             keys      == objectKeys(mapTool)
             tallied   == sortByCountDescending(
                            [i \in 1..Len(keys) |->
                               [text |-> keys[i],
                                count |-> objectGetOrZero(mapTool, keys[i]),
                                percentage |-> Percentage(objectGetOrZero(mapTool, keys[i]),
                                                          totalTool)]])
             keep      == SelectSeq(tallied, isKept)
             small     == SelectSeq(tallied, isSmall)
             otherList == [i \in 1..Len(small) |-> small[i].text]
             oc        == sumCounts(small)
         IN  IF totalTool # 0
             THEN Append(arr,
                    [question |-> DISPLAY_CONFIG.goToTool.title,
                     type |-> DISPLAY_CONFIG.goToTool.type,
                     responses |->
                        IF Len(small) > 0
                        THEN Append(keep, [text |-> <<"O","t","h","e","r">>, count |-> oc,
                                           percentage |-> Percentage(oc, totalTool)])
                        ELSE keep,
                     total_responses |-> totalTool,
                     other_responses |-> IF Len(otherList) > 0 THEN join(otherList, <<","," ">>)
                                         ELSE undefined])
             ELSE arr
    ELSE arr

\* the key one cell of the scale column adds to, if any
scaleKeys(raw) == IF inScaleRange(Number(raw)) THEN <<String(Number(raw))>> ELSE <<>>

\* rows.forEach over the scale column: mapConf[String(n)] += 1, where a key
\* that is not there yet (undefined + 1) becomes NaN and stays NaN
tallyScale(rws, colIdx, mapConf) ==
    LET counted == tally(mapConf, [k \in 1..Len(rws) |-> scaleKeys(get(rws[k], colIdx))])
    IN  [i \in 1..Len(counted) |->
           IF i <= Len(mapConf) THEN counted[i] ELSE [key |-> counted[i].key, value |-> NaN]]

\* Object.values(mapConf).reduce(function (s, n) { return s + n; }, 0)
RECURSIVE sumValues(_)
sumValues(obj) ==
    IF Len(obj) = 0 THEN 0
    ELSE LET rest == sumValues(Tail(obj))
         IN  IF obj[1].value = NaN \/ rest = NaN THEN NaN ELSE obj[1].value + rest

isCountedBucket(r) == r.count > 0

\* block 3 with the buckets of count 0 left out
confidenceQuestion_countedOnly(arr, colIdx, rws) ==
    IF colIdx > -1
    THEN LET orderScale == DISPLAY_CONFIG.confidence.scale
             mapConf    == tallyScale(rws, colIdx, zeroCounts(orderScale))
             totalConf  == sumValues(mapConf)
         IN  IF totalConf # 0 /\ totalConf # NaN
             THEN Append(arr,
                    [question |-> DISPLAY_CONFIG.confidence.title \o <<" ","(","1","U+2013","5",")">>,
                     type |-> DISPLAY_CONFIG.confidence.type,
                     responses |->
                        SelectSeq(
                          [i \in 1..Len(orderScale) |->
                             [text |-> orderScale[i],
                              count |-> objectGetOrZero(mapConf, orderScale[i]),
                              percentage |-> Percentage(objectGetOrZero(mapConf, orderScale[i]),
                                                        totalConf)]],
                          isCountedBucket),
                     total_responses |-> totalConf,
                     other_responses |-> undefined])
             ELSE arr
    ELSE arr

\* block 3: confidence 1-5
confidenceQuestion(arr, colIdx, rws) ==
    IF colIdx > -1
    THEN LET orderScale == DISPLAY_CONFIG.confidence.scale
             mapConf    == tallyScale(rws, colIdx, zeroCounts(orderScale))
             totalConf  == sumValues(mapConf)
         IN  IF totalConf # 0 /\ totalConf # NaN
             THEN Append(arr,
                    [question |-> DISPLAY_CONFIG.confidence.title \o <<" ","(","1","U+2013","5",")">>,
                     type |-> DISPLAY_CONFIG.confidence.type,
                     responses |->
                        [i \in 1..Len(orderScale) |->
                           [text |-> orderScale[i],
                            count |-> objectGetOrZero(mapConf, orderScale[i]),
                            percentage |-> Percentage(objectGetOrZero(mapConf, orderScale[i]),
                                                      totalConf)]],
                     total_responses |-> totalConf,
                     other_responses |-> undefined])
             ELSE arr
    ELSE arr

RECURSIVE tallyAnswers(_, _, _, _)
tallyAnswers(rws, k, colIdx, counts) ==
    IF k > Len(rws) THEN counts
    ELSE LET v == get(rws[k], colIdx)
         IN  tallyAnswers(rws, k + 1, colIdx,
                          IF v # <<>> THEN objectSet(counts, v, objectGetOrZero(counts, v) + 1)
                          ELSE counts)

\* block 5: top priority
topPriorityQuestion(arr, colIdx, rws, respondentIdx, seed) ==
    IF colIdx > -1
    THEN LET orderTop    == DISPLAY_CONFIG.topPriority.order
             countsTop   == tallyAnswers(rws, 1, colIdx, zeroCounts(orderTop))
             answeredTop == Cardinality(respondentsWhoAnswered(rws, colIdx, respondentIdx, seed))
         IN  pushOrderedWithOther(arr, "topPriority", countsTop, <<>>, answeredTop, orderTop)
    ELSE arr

\* The six blocks push onto one questions array, in this order.
buildQuestionsFromHeadersAndRows(hdrs, rws, seed) ==
    LET idx           == indexByHeader(hdrs, NEEDLES)
        respondentIdx == findRespondentIdIndex(hdrs)
    IN  multipleChoiceQuestion(<<>>, "aiUsage", idx.aiUsage, rws, respondentIdx, seed)
          \o goToToolQuestion(<<>>, idx.goToTool, rws, respondentIdx, seed)
          \o confidenceQuestion(<<>>, idx.confidence, rws)
          \o multipleChoiceQuestion(<<>>, "curiosity", idx.curiosity, rws, respondentIdx, seed)
          \o topPriorityQuestion(<<>>, idx.topPriority, rws, respondentIdx, seed)
          \o multipleChoiceQuestion(<<>>, "creatorAreas", idx.creatorAreas, rws,
                                    respondentIdx, seed)

(***************************************************************************)
(* The grids the aggregator is run on.  A sheet is a header row and the    *)
(* rows respondents can add to it; Spec grows a grid row by row, SpecBulk  *)
(* starts from a large grid of two kinds of row.                           *)
(***************************************************************************)
RespondentIdHeader == <<"R","e","s","p","o","n","d","e","n","t"," ","I","D">>

RespondentIds == { <<>>, <<"r","1">>, <<"r","2">> }

UsageCells ==
    { <<>>,
      <<"D","r","a","f","t","i","n","g"," ","o","r"," ","r","e","v","i","e","w",
          "i","n","g"," ","c","r","e","a","t","i","v","e"," ","b","r","i","e","f",
          "s",","," ","A","n","a","l","y","z","i","n","g"," ","c","a","m","p","a",
          "i","g","n"," ","r","e","s","u","l","t","s">>,
      <<"A","n","a","l","y","z","i","n","g"," ","c","a","m","p","a","i","g","n",
          " ","r","e","s","u","l","t","s">>,
      <<"O","t","h","e","r",":"," ","N","o","t","i","o","n"," ","A","I",","," ",
          "Z","a","p","i","e","r">> }

ToolCells == { <<>>, <<"C","h","a","t","G","P","T">>, <<"c","h","a","t"," ","g","p","t",","," ","C","l","a","u","d","e">>, <<"o","t","h","e","r">> }

ScaleCells == { <<"3">>, <<"3",".","0">>, <<"5">>, <<"7">>, <<"a","b","c">>, <<"2",".","5">> }

CuriosityCells ==
    { <<>>,
      <<"c","r","e","a","t","o","r"," ","d","i","s","c","o","v","e","r","y">>,
      <<"A","I","-","g","e","n","e","r","a","t","e","d"," ","c","o","n","t","e",
          "n","t"," ","(","v","i","d","e","o",","," ","i","m","a","g","e","s",",",
          " ","v","o","i","c","e",")",","," ","A","I"," ","a","n","d"," ","b","r",
          "a","n","d"," ","s","a","f","e","t","y">>,
      <<"A","I"," ","a","n","d"," ","b","r","a","n","d"," ","s","a","f","e","t",
          "y",","," ","P","r","o","m","p","t"," ","e","n","g","i","n","e","e","r",
          "i","n","g">> }

PriorityCells ==
    { <<>>,
      <<"L","e","a","r","n","i","n","g"," ","f","r","o","m"," ","g","u","e","s",
          "t"," ","s","p","e","a","k","e","r","s">>,
      <<"D","i","s","c","o","v","e","r","i","n","g"," ","n","e","w"," ","A","I",
          " ","u","s","e"," ","c","a","s","e","s">>,
      <<"N","e","t","w","o","r","k","i","n","g">> }

AreasCells ==
    { <<>>,
      <<"M","a","r","k","e","t","p","l","a","c","e"," ","O","p","t","i","m","i",
          "z","a","t","i","o","n"," ","(","e",".","g","."," ","T","i","k","T","o",
          "k"," ","S","h","o","p",","," ","A","m","a","z","o","n"," ","I","n","f",
          "l","u","e","n","c","e","r",")">>,
      <<"O","u","t","r","e","a","c","h"," ","&"," ","C","o","m","m","u","n","i",
          "c","a","t","i","o","n",","," ","C","o","n","t","e","n","t"," ","R","e",
          "v","i","e","w"," ","&"," ","B","r","a","n","d"," ","S","a","f","e","t",
          "y">>,
      <<"O","u","t","r","e","a","c","h"," ","&"," ","C","o","m","m","u","n","i",
          "c","a","t","i","o","n",","," ","P","o","d","c","a","s","t","s">> }

FullHeaders ==
    << RespondentIdHeader,
       DISPLAY_CONFIG.aiUsage.title,
       DISPLAY_CONFIG.goToTool.title,
       DISPLAY_CONFIG.confidence.title,
       DISPLAY_CONFIG.curiosity.title,
       DISPLAY_CONFIG.topPriority.title,
       DISPLAY_CONFIG.creatorAreas.title >>

FullRows ==
    { << <<"r","1">>, <<"A","n","a","l","y","z","i","n","g"," ","c","a","m","p","a","i","g","n",
          " ","r","e","s","u","l","t","s">>, <<"C","h","a","t","G","P","T">>, <<"3">>, <<"c","r","e","a","t","o","r"," ","d","i","s","c","o","v","e","r","y">>,
         <<"N","e","t","w","o","r","k","i","n","g">>, <<"O","u","t","r","e","a","c","h"," ","&"," ","C","o","m","m","u","n","i",
          "c","a","t","i","o","n",","," ","P","o","d","c","a","s","t","s">> >>,
      << <<>>, <<"O","t","h","e","r",":"," ","N","o","t","i","o","n"," ","A","I",","," ",
          "Z","a","p","i","e","r">>, <<"o","t","h","e","r">>, <<"2",".","5">>,
         <<"A","I"," ","a","n","d"," ","b","r","a","n","d"," ","s","a","f","e","t",
          "y",","," ","P","r","o","m","p","t"," ","e","n","g","i","n","e","e","r",
          "i","n","g">>, <<"L","e","a","r","n","i","n","g"," ","f","r","o","m"," ","g","u","e","s",
          "t"," ","s","p","e","a","k","e","r","s">> >> }

Sheets ==
    { [headers |-> <<RespondentIdHeader, DISPLAY_CONFIG.aiUsage.title>>,
       pool    |-> {<<id, c>> : id \in RespondentIds \ {<<"r","2">>}, c \in UsageCells}],
      [headers |-> <<RespondentIdHeader, DISPLAY_CONFIG.goToTool.title>>,
       pool    |-> {<<id, c>> : id \in RespondentIds \ {<<"r","2">>}, c \in ToolCells}],
      [headers |-> <<DISPLAY_CONFIG.confidence.title>>,
       pool    |-> {<<>>} \cup {<<c>> : c \in ScaleCells}],
      [headers |-> <<DISPLAY_CONFIG.curiosity.title>>,
       pool    |-> {<<c>> : c \in CuriosityCells}],
      [headers |-> <<RespondentIdHeader, DISPLAY_CONFIG.topPriority.title>>,
       pool    |-> {<<id, c>> : id \in RespondentIds \ {<<>>}, c \in PriorityCells \ {<<>>}}
                     \cup {<<<<"r","1">>>>}],
      [headers |-> <<DISPLAY_CONFIG.creatorAreas.title>>,
       pool    |-> {<<c>> : c \in AreasCells}],
      [headers |-> FullHeaders, pool |-> FullRows] }

RowPool(hdrs) == (CHOOSE sheet \in Sheets : sheet.headers = hdrs).pool

Seeds == {1, 2}

noMatch == [hits |-> <<>>, leftovers |-> <<>>]

\* indexByHeader was not called
noIndex == [k \in DOMAIN NEEDLES |-> 0 - 1]

\* no onRequest invocation is under way
NoRequest ==
    /\ env = [present |-> FALSE, SHEET_ID |-> <<>>, GOOGLE_API_KEY |-> <<>>]
    /\ diag = [steps |-> <<>>, fields |-> {}]
    /\ site = "none"
    /\ fb = [questions |-> <<>>]
    /\ replies = <<>>

Init ==
    /\ headers \in {sheet.headers : sheet \in Sheets}
    /\ rows = <<>>
    /\ questions = <<>>
    /\ answer = <<>>
    /\ canonicalList = <<>>
    /\ matchResult = noMatch
    /\ pc = "rows"
    /\ NoRequest
    /\ columnIndex = noIndex

\* one more data row of the grid
AddRow ==
    /\ pc = "rows"
    /\ Len(rows) < MaxRows
    /\ \E row \in RowPool(headers) : rows' = Append(rows, row)
    /\ UNCHANGED <<headers, questions, answer, canonicalList, matchResult, pc>>
    /\ UNCHANGED requestVars
    /\ UNCHANGED columnIndex

\* buildQuestionsFromHeadersAndRows(headers, rows)
Aggregate ==
    /\ pc = "rows"
    /\ \E seed \in Seeds : questions' = buildQuestionsFromHeadersAndRows(headers, rows, seed)
    /\ pc' = "built"
    /\ UNCHANGED <<headers, rows, answer, canonicalList, matchResult>>
    /\ UNCHANGED requestVars
    /\ UNCHANGED columnIndex

Next == AddRow \/ Aggregate

Spec == Init /\ [][Next]_vars


(***************************************************************************)
(* SpecBulk: the aggregator on large grids, each made of two kinds of row. *)
(***************************************************************************)
BulkSheets ==
    { [headers |-> <<DISPLAY_CONFIG.confidence.title>>,
       first   |-> <<<<"1">>>>, second |-> <<<<"2">>>>],
      [headers |-> <<DISPLAY_CONFIG.goToTool.title>>,
       first   |-> <<<<"C","h","a","t","G","P","T">>>>, second |-> <<<<"C","l","a","u","d","e">>>>],
      [headers |-> <<DISPLAY_CONFIG.goToTool.title>>,
       first   |-> <<<<"o","t","h","e","r">>>>, second |-> <<<<"c","l","a","u","d","e"," ","a","i">>>>] }

InitBulk ==
    /\ \E sheet \in BulkSheets, n \in 0..MaxBulk, m \in 0..MaxBulk :
          /\ headers = sheet.headers
          /\ rows = [i \in 1..n |-> sheet.first] \o [i \in 1..m |-> sheet.second]
    /\ questions = <<>>
    /\ answer = <<>>
    /\ canonicalList = <<>>
    /\ matchResult = noMatch
    /\ pc = "rows"
    /\ NoRequest
    /\ columnIndex = noIndex

NextBulk == Aggregate

SpecBulk == InitBulk /\ [][NextBulk]_vars

(***************************************************************************)
(* SpecMatch: matchCanonicalOptions on one cell, for the option lists of   *)
(* the three multi-select questions and for a list with deliberately       *)
(* overlapping labels.  A cell is up to MaxFragments fragments joined by   *)
(* ", ".                                                                   *)
(***************************************************************************)
OverlappingOptions ==
    << <<"C","o","n","t","e","n","t"," ","R","e","v","i","e","w"," ","&"," ","B",
          "r","a","n","d"," ","S","a","f","e","t","y">>,
       <<"B","r","a","n","d"," ","S","a","f","e","t","y">>,
       <<"C","r","e","a","t","o","r"," ","D","i","s","c","o","v","e","r","y"," ",
          "&"," ","V","e","t","t","i","n","g">>,
       <<"A","I"," ","f","o","r"," ","c","r","e","a","t","o","r"," ","d","i","s",
          "c","o","v","e","r","y">> >>

MatchLists ==
    { DISPLAY_CONFIG.aiUsage.order,
      DISPLAY_CONFIG.curiosity.order,
      DISPLAY_CONFIG.creatorAreas.order,
      OverlappingOptions }

Fragments ==
    { <<"C","o","n","t","e","n","t"," ","R","e","v","i","e","w"," ","&"," ","B",
          "r","a","n","d"," ","S","a","f","e","t","y">>,
      <<"C","r","e","a","t","o","r"," ","D","i","s","c","o","v","e","r","y"," ",
          "&"," ","V","e","t","t","i","n","g">>,
      <<"c","r","e","a","t","o","r"," ","d","i","s","c","o","v","e","r","y">>,
      <<"A","I"," ","a","n","d"," ","b","r","a","n","d"," ","s","a","f","e","t",
          "y">>,
      <<"A","n","a","l","y","z","i","n","g"," ","c","a","m","p","a","i","g","n",
          " ","r","e","s","u","l","t","s">>,
      <<"N","o","t","i","o","n"," ","A","I">>,
      <<"O","t","h","e","r">> }

Answers ==
    { join(f, <<","," ">>) : f \in UNION {[1..n -> Fragments] : n \in 0..MaxFragments} }

InitMatch ==
    /\ headers = <<>>
    /\ rows = <<>>
    /\ questions = <<>>
    /\ answer \in Answers
    /\ canonicalList \in MatchLists
    /\ matchResult = noMatch
    /\ pc = "cell"
    /\ NoRequest
    /\ columnIndex = noIndex

\* matchCanonicalOptions(answer, canonicalList)
Match ==
    /\ pc = "cell"
    /\ matchResult' = matchCanonicalOptions(answer, canonicalList)
    /\ pc' = "matched"
    /\ UNCHANGED <<headers, rows, questions, answer, canonicalList>>
    /\ UNCHANGED requestVars
    /\ UNCHANGED columnIndex

NextMatch == Match

SpecMatch == InitMatch /\ [][NextMatch]_vars


(***************************************************************************)
(* What the properties below talk about: the question built for a config   *)
(* key, the column it was located at, and that column's cells.             *)
(***************************************************************************)
ConfigKeys == {"aiUsage", "goToTool", "confidence", "curiosity", "topPriority", "creatorAreas"}

MultipleChoiceKeys == {"aiUsage", "curiosity", "creatorAreas"}

Other == <<"O","t","h","e","r">>

questionTitle(k) ==
    IF k = "confidence" THEN DISPLAY_CONFIG.confidence.title \o <<" ","(","1","U+2013","5",")">>
    ELSE DISPLAY_CONFIG[k].title

Emitted(k) == \E i \in 1..Len(questions) : questions[i].question = questionTitle(k)

QuestionOf(k) == questions[CHOOSE i \in 1..Len(questions) : questions[i].question = questionTitle(k)]

\* idx.<k>: out[k] = find(needles[k])
Column(k) == find(headers, NEEDLES[k])

CellAt(i, k) == get(rows[i], Column(k))

AnsweredRows(k) ==
    LET colIdx == Column(k)
    IN  {i \in 1..Len(rows) : get(rows[i], colIdx) # <<>>}

RespondentIdAt(i) ==
    IF findRespondentIdIndex(headers) = -1 THEN <<>>
    ELSE get(rows[i], findRespondentIdIndex(headers))

OtherCount(q) ==
    IF \E j \in 1..Len(q.responses) : q.responses[j].text = Other
    THEN q.responses[CHOOSE j \in 1..Len(q.responses) : q.responses[j].text = Other].count
    ELSE 0

\* C1: in every multiple_choice question, the count of each canonical option
\* is at most the question's total_responses, also when the grid has a
\* respondent-id column with repeated or blank ids.
C1_OptionCountWithinDenominator ==
    pc = "built" =>
        \A i \in 1..Len(questions) :
            questions[i].type = "multiple_choice" =>
                \A j \in 1..Len(questions[i].responses) :
                    questions[i].responses[j].text # Other =>
                        questions[i].responses[j].count <= questions[i].total_responses

\* C2: in the two single-choice questions (go-to tool, top priority) the
\* bucket counts add up to total_responses.
C2_SingleChoiceCountsSumToDenominator ==
    pc = "built" =>
        \A k \in {"goToTool", "topPriority"} :
            Emitted(k) => sumCounts(QuestionOf(k).responses) = QuestionOf(k).total_responses

\* the spellings of the integer k that a scale cell can have
IntegerLiterals(k) ==
    LET d == Digits[k + 1]
    IN  {<<d>>, <<d, ".">>, <<d, ".", "0">>, <<"0", d>>, <<"+", d>>}

ScaleRows(k) == {i \in 1..Len(rows) : CellAt(i, "confidence") \in IntegerLiterals(k)}

\* C3: in the scale question, bucket k counts exactly the rows whose cell
\* parses to the integer k in 1..5; empty, non-numeric and out-of-range cells
\* are in no bucket and not in the denominator, so total_responses is the
\* number of rows with an integer in 1..5 and the sum of the bucket counts.
C3_ScaleCountsIntegerCells ==
    (pc = "built" /\ Emitted("confidence")) =>
        LET q == QuestionOf("confidence")
        IN  /\ Len(q.responses) = 5
            /\ \A k \in 1..5 : /\ q.responses[k].text = <<Digits[k + 1]>>
                               /\ q.responses[k].count = Cardinality(ScaleRows(k))
            /\ q.total_responses = Cardinality(UNION {ScaleRows(k) : k \in 1..5})
            /\ q.total_responses = sumCounts(q.responses)

\* C3 witness: a scale question built from a grid that has a counted cell
\* spelled "3.0", a non-numeric or out-of-range cell, and an empty cell.
C3_Witness ==
    /\ pc = "built" /\ Emitted("confidence")
    /\ \E i \in 1..Len(rows) : CellAt(i, "confidence") = <<"3",".","0">>
    /\ \E i \in 1..Len(rows) : CellAt(i, "confidence") \in {<<"7">>, <<"a","b","c">>}
    /\ \E i \in 1..Len(rows) : CellAt(i, "confidence") = <<>>
    /\ QuestionOf("confidence").total_responses = 1

\* C4: when a question has an 'Other' bucket, it is the last bucket.
C4_OtherBucketIsLast ==
    pc = "built" =>
        \A i \in 1..Len(questions) :
            \A j \in 1..Len(questions[i].responses) :
                questions[i].responses[j].text = Other => j = Len(questions[i].responses)

\* the rows whose cell leaves text that matches no canonical option
LeftoverRows(k) ==
    {i \in 1..Len(rows) :
        matchCanonicalOptions(CellAt(i, k), DISPLAY_CONFIG[k].order).leftovers # <<>>}

\* C5: the 'Other' count of a multiple_choice question is the number of
\* rows with leftover non-canonical text, at most one per respondent.
C5_OtherCountsRespondents ==
    pc = "built" =>
        \A k \in MultipleChoiceKeys :
            Emitted(k) => OtherCount(QuestionOf(k)) = Cardinality(LeftoverRows(k))


\* the respondents behind the rows that answered the column of question k:
\* rows that share a respondent id are one respondent, and a row without a
\* respondent id is a respondent of its own
Respondents(k) ==
    LET answered      == AnsweredRows(k)
        respondentIdx == findRespondentIdIndex(headers)
        rid           == [i \in answered |->
                             IF respondentIdx = -1 THEN <<>> ELSE get(rows[i], respondentIdx)]
    IN  Cardinality({rid[i] : i \in answered} \ {<<>>})
          + Cardinality({i \in answered : rid[i] = <<>>})

\* C6 as stated: the total_responses of a question that takes its
\* denominator from respondentsWhoAnswered is the number of rows whose cell
\* in the question's column is non-empty after trimming, whatever the
\* respondent-id column holds.
C6_DenominatorCountsAnsweredRows ==
    pc = "built" =>
        \A k \in ConfigKeys \ {"confidence"} :
            Emitted(k) => QuestionOf(k).total_responses = Cardinality(AnsweredRows(k))

\* C6 as the code has it: the total_responses of such a question is the
\* number of distinct respondents among the rows that answered its column
\* (one per distinct non-blank respondent id, one per row without an id),
\* and the question is left out when that number is 0.
C6_DenominatorCountsDistinctRespondents ==
    pc = "built" =>
        \A k \in ConfigKeys \ {"confidence"} :
            Column(k) > -1 =>
                IF Respondents(k) = 0 THEN ~Emitted(k)
                ELSE Emitted(k) /\ QuestionOf(k).total_responses = Respondents(k)

\* C6 witness: three rows answered a column, two of them under one
\* respondent id and one without an id, and the question's denominator is 2.
C6_Witness ==
    /\ pc = "built"
    /\ \E k \in ConfigKeys \ {"confidence"} :
          /\ Emitted(k)
          /\ Cardinality(AnsweredRows(k)) = 3
          /\ \E i, j \in AnsweredRows(k) :
                i # j /\ RespondentIdAt(i) # <<>> /\ RespondentIdAt(i) = RespondentIdAt(j)
          /\ \E i \in AnsweredRows(k) : RespondentIdAt(i) = <<>>
          /\ QuestionOf(k).total_responses = 2

\* position of a label in a list, 0 when it is not there
PositionIn(list, label) ==
    IF \E i \in 1..Len(list) : list[i] = label
    THEN CHOOSE i \in 1..Len(list) : list[i] = label
    ELSE 0

NonOtherBuckets(q) == {j \in 1..Len(q.responses) : q.responses[j].text # Other}

C7_PercentageIsExactRound ==
    pc = "built" =>
        \A i \in 1..Len(questions) :
            /\ questions[i].total_responses > 0
            /\ \A j \in 1..Len(questions[i].responses) :
                  LET r == questions[i].responses[j]
                      t == questions[i].total_responses
                  IN  /\ 2 * t * r.percentage <= 200 * r.count + t
                      /\ 200 * r.count + t < 2 * t * (r.percentage + 1)

\* C8: in the go-to-tool question a normalized label has a bucket of its
\* own exactly when 10 * count >= total_responses, and the labels below that
\* share are folded into one last 'Other' bucket that counts their sum.
C8_TenPercentThreshold ==
    (pc = "built" /\ Emitted("goToTool")) =>
        LET q       == QuestionOf("goToTool")
            mapTool == tallyTools(rows, Column("goToTool"), <<>>)
            labels  == 1..Len(mapTool)
            hasOwnBucket(n) ==
                \E j \in 1..Len(q.responses) :
                    /\ q.responses[j].text = mapTool[n].key
                    /\ q.responses[j].count = mapTool[n].value
                    /\ (j < Len(q.responses) \/ q.other_responses = undefined)
            folded  == {n \in labels : 10 * mapTool[n].value < q.total_responses}
        IN  /\ \A n \in labels : hasOwnBucket(n) <=> n \notin folded
            /\ folded # {} =>
                  /\ q.responses[Len(q.responses)].text = Other
                  /\ q.responses[Len(q.responses)].count
                        = sumCounts([n \in 1..Len(mapTool) |->
                                       [count |-> IF n \in folded THEN mapTool[n].value ELSE 0]])

\* options X, Y of the list such that a phrase of X (its label or one of its
\* aliases) lies inside the label of Y
Embedded(list, x, y) ==
    /\ x # y
    /\ \E phrase \in {list[x]} \cup {ALIASES(list[x])[a] : a \in 1..Len(ALIASES(list[x]))} :
          includes(toLowerCase(list[y]), toLowerCase(phrase))

PushOrderedKeys == {"aiUsage", "curiosity", "topPriority", "creatorAreas"}

\* C11: in every question built by pushOrderedWithOther the buckets other
\* than 'Other' are labels of the question's canonical list, in canonical
\* order, and the 'Other' bucket, when present, comes after them.
C11_CanonicalSubsequence ==
    pc = "built" =>
        \A k \in PushOrderedKeys :
            Emitted(k) =>
                LET r     == QuestionOf(k).responses
                    order == DISPLAY_CONFIG[k].order
                IN  /\ \A j \in 1..Len(r) :
                          r[j].text # Other => PositionIn(order, r[j].text) > 0
                    /\ \A i, j \in 1..Len(r) :
                          (i < j /\ r[i].text # Other /\ r[j].text # Other) =>
                              PositionIn(order, r[i].text) < PositionIn(order, r[j].text)
                    /\ \A i, j \in 1..Len(r) :
                          (r[i].text = Other /\ r[j].text # Other) => j < i

\* C11 witness: a question built by pushOrderedWithOther that lists two
\* canonical options which are not neighbours in the canonical list, and
\* then 'Other'.
C11_Witness ==
    /\ pc = "built"
    /\ \E k \in PushOrderedKeys :
          /\ Emitted(k)
          /\ Len(QuestionOf(k).responses) = 3
          /\ QuestionOf(k).responses[3].text = Other
          /\ PositionIn(DISPLAY_CONFIG[k].order, QuestionOf(k).responses[2].text)
                > PositionIn(DISPLAY_CONFIG[k].order, QuestionOf(k).responses[1].text) + 1

\* C12: an emitted scale question lists exactly the buckets '1' to '5', in
\* ascending order, a bucket of count 0 included.
C12_FiveScaleBuckets ==
    (pc = "built" /\ Emitted("confidence")) =>
        LET r == QuestionOf("confidence").responses
        IN  /\ Len(r) = 5
            /\ \A k \in 1..5 : r[k].text = <<Digits[k + 1]>>

\* C12 witness: an emitted scale question whose column held '3', '5' and the
\* out-of-range '7': buckets '1', '2' and '4' are there with count 0.
C12_Witness ==
    /\ pc = "built" /\ Emitted("confidence")
    /\ \E i \in 1..Len(rows) : CellAt(i, "confidence") = <<"7">>
    /\ \E i \in 1..Len(rows) : CellAt(i, "confidence") = <<"5">>
    /\ LET r == QuestionOf("confidence").responses
       IN  /\ Len(r) = 5
           /\ r[1].count = 0 /\ r[2].count = 0 /\ r[4].count = 0
           /\ r[3].count = 1 /\ r[5].count = 1


(***************************************************************************)
(* CSV fallback: the parser                                                *)
(***************************************************************************)
notQuote(c) == c # "\""

isNonBlank(l) == Len(trim(l)) > 0

\* The cells of one CSV line.  The loop toggles q at every double quote and
\* drops the quote, ends a cell at a comma read while q is false, and
\* appends every other character; q when line[i] is read is the parity of
\* the quotes before i.
splitCsvLine(line) ==
    LET quotes  == {i \in 1..Len(line) : line[i] = "\""}
        q(i)    == Cardinality({j \in quotes : j < i}) % 2 = 1
        commas  == {i \in 1..Len(line) : line[i] = "," /\ ~q(i)}
        n       == Cardinality(commas)
        at(k)   == IF k = 0 THEN 0
                   ELSE IF k = n + 1 THEN Len(line) + 1
                   ELSE CHOOSE i \in commas : Cardinality({j \in commas : j < i}) = k - 1
        out(k)  == SelectSeq(SubSeq(line, at(k - 1) + 1, at(k) - 1), notQuote)
    IN  [k \in 1..(n + 1) |-> trim(out(k))]

parseCsv(text) ==
    LET lines == SelectSeq(split(text, "\n"), isNonBlank)
    IN  IF Len(lines) < 2 THEN [headers |-> <<>>, rows |-> <<>>]
        ELSE [headers |-> [i \in 1..Len(splitCsvLine(lines[1])) |->
                              trim(SelectSeq(splitCsvLine(lines[1])[i], notQuote))],
              rows    |-> [i \in 1..(Len(lines) - 1) |-> splitCsvLine(lines[i + 1])]]


(***************************************************************************)
(* onRequest and tryCsvFallback, as the steps between their awaits.        *)
(* A row of the Sheets API's values is null or an array of cells; diag is  *)
(* the steps pushed and the names of the fields set; a Response is its     *)
(* status and the object its body is the JSON text of.                     *)
(***************************************************************************)
\* diag.steps.push(step)
pushStep(d, step) == [d EXCEPT !.steps = Append(@, step)]

\* diag[field] = ...
setField(d, field) == [d EXCEPT !.fields = @ \cup {field}]

\* new Response(JSON.stringify(obj, null, 2), {headers}): the status defaults to 200
ok(obj) == [status |-> 200, body |-> obj]

\* the returns after tryCsvFallback with no message text
fallbackMessage_blank(s) == SubSeq(<<"E","n","v"," ","m","i","s","s","i","n","g">>, 1, 0)

\* the message of the return that follows the call of tryCsvFallback at site s
fallbackMessage(s) ==
    CASE s = "fb"  -> <<"E","n","v"," ","m","i","s","s","i","n","g">>
      [] s = "fb2" -> <<"N","o"," ","A","P","I"," ","k","e","y",";"," ","C","S","V"," ","f","a",
          "l","l","b","a","c","k">>
      [] s = "fb3" -> <<"S","h","e","e","t","s"," ","A","P","I"," ","f","a","i","l","e","d",";",
          " ","C","S","V"," ","f","a","l","l","b","a","c","k">>
      [] s = "fb4" -> <<"N","o"," ","n","o","n","-","e","m","p","t","y"," ","r","o","w","s",";",
          " ","C","S","V"," ","f","a","l","l","b","a","c","k">>
      [] s = "fb5" -> <<"A","g","g","r","e","g","a","t","i","o","n"," ","e","m","p","t","y",";",
          " ","C","S","V"," ","f","a","l","l","b","a","c","k">>

successMessage == <<"T","a","l","l","i","e","d"," ","(","A","P","I"," ","p","a","t","h",",",
          " ","d","i","s","p","l","a","y","-","a","w","a","r","e",")">>

unhandledMessage == <<"U","n","h","a","n","d","l","e","d"," ","e","r","r","o","r">>

\* Array.isArray(apiJson && apiJson.values) ? apiJson.values : []
valuesOf(apiJson) == IF apiJson.hasValues THEN apiJson.values ELSE <<>>

\* (row || []).some(cell => String(cell || "").trim().length > 0)
hasText(row) ==
    /\ ~row.isNull
    /\ \E c \in 1..Len(row.cells) : Len(trim(row.cells[c])) > 0

\* values.findIndex(hasText), zero-based, -1 when no row has text
findHeaderIndex(values) ==
    LET at == {i \in 1..Len(values) : hasText(values[i])}
    IN  IF at = {} THEN -1 ELSE SetMin(at) - 1

\* row[i] of a null row is a TypeError: every block whose column is located
\* reads a cell of every row
buildThrows(hdrs, jsonRows) ==
    /\ \E k \in DOMAIN NEEDLES : find(hdrs, NEEDLES[k]) > -1
    /\ \E i \in 1..Len(jsonRows) : jsonRows[i].isNull

\* the aggregation taken to be empty whatever it produced
aggregationEmpty_always(qs) == Len(qs) >= 0

\* !questions.length
aggregationEmpty(qs) == Len(qs) = 0

\* the catch of onRequest answering as if nothing had been thrown
unhandledResponse_success(d) ==
    [status |-> 200,
     body   |-> [success |-> TRUE, message |-> unhandledMessage,
                 diagnostics |-> setField(d, "unhandled"), stack |-> "err.stack"]]

\* the catch of onRequest: diag.unhandled is set and a Response is built
\* from an object without a questions property
unhandledResponse(d) ==
    [status |-> 200,
     body   |-> [success |-> FALSE, message |-> unhandledMessage,
                 diagnostics |-> setField(d, "unhandled"), stack |-> "err.stack"]]

\* the call tryCsvFallback(d, {SHEET_ID: sheetId, SHEET_GID: "0"}) at site s,
\* up to its first await: of fetch when there is a sheet id, else of the
\* promise it returns
callCsvFallback(d, s, sheetId) ==
    /\ site' = s
    /\ fb' = [questions |-> <<>>]
    /\ IF sheetId = <<>>
       THEN /\ diag' = setField(pushStep(d, "csv-fallback"), "csv_error")
            /\ pc' = "await tryCsvFallback"
       ELSE /\ diag' = pushStep(d, "csv-fallback")
            /\ pc' = "await fetch(csv)"


(***************************************************************************)
(* What an invocation of onRequest can meet: context.env, the body of the  *)
(* Sheets API's answer and the text of the CSV export.                     *)
(***************************************************************************)
SheetIds == { <<>>, <<"s","h","e","e","t","-","1">> }

ApiKeys == { <<>>, <<"k","e","y","-","1">> }

Envs ==
    { [present |-> FALSE, SHEET_ID |-> <<>>, GOOGLE_API_KEY |-> <<>>] }
      \cup { [present |-> TRUE, SHEET_ID |-> id, GOOGLE_API_KEY |-> key] :
                 id \in SheetIds, key \in ApiKeys }

nullRow == [isNull |-> TRUE, cells |-> <<>>]

arrayRow(cells) == [isNull |-> FALSE, cells |-> cells]

UsageHeaders == <<RespondentIdHeader, DISPLAY_CONFIG.aiUsage.title>>

ApiJsons ==
    { [hasValues |-> FALSE, values |-> <<>>],
      [hasValues |-> TRUE,  values |-> <<>>],
      [hasValues |-> TRUE,  values |-> <<arrayRow(<<>>), nullRow, arrayRow(<<<<>>, <<" "," ">>>>)>>],
      [hasValues |-> TRUE,  values |-> <<arrayRow(<<<<"N","a","m","e">>>>), arrayRow(<<<<"A","d","a">>>>), nullRow>>],
      [hasValues |-> TRUE,  values |-> <<arrayRow(UsageHeaders)>>],
      [hasValues |-> TRUE,
       values |-> <<arrayRow(<<DISPLAY_CONFIG.goToTool.title>>), arrayRow(<<<<>>>>)>>],
      [hasValues |-> TRUE,
       values |-> <<arrayRow(<<DISPLAY_CONFIG.confidence.title>>), arrayRow(<<<<"2",".","5">>>>)>>],
      [hasValues |-> TRUE,  values |-> <<arrayRow(UsageHeaders), arrayRow(<<<<"r","1">>, <<" ">>>>)>>],
      [hasValues |-> TRUE,
       values |-> <<nullRow, arrayRow(UsageHeaders),
                    arrayRow(<<<<"r","1">>, <<"A","n","a","l","y","z","i","n","g"," ","c","a","m","p","a","i","g","n",
          " ","r","e","s","u","l","t","s">>>>)>>],
      [hasValues |-> TRUE,
       values |-> <<arrayRow(UsageHeaders),
                    arrayRow(<<<<"r","1">>, <<"A","n","a","l","y","z","i","n","g"," ","c","a","m","p","a","i","g","n",
          " ","r","e","s","u","l","t","s">>>>), nullRow>>],
      [hasValues |-> TRUE,
       values |-> <<arrayRow(<<<<" ">>>>), arrayRow(<<DISPLAY_CONFIG.confidence.title>>),
                    arrayRow(<<<<"4">>>>), arrayRow(<<>>), arrayRow(<<<<"5">>>>)>>] }

quoted(s) == <<"\"">> \o s \o <<"\"">>

csvLine(cells) == join(cells, <<",">>)

CsvTexts ==
    { <<>>,
      csvLine(<<RespondentIdHeader, quoted(DISPLAY_CONFIG.aiUsage.title)>>) \o <<"\n">>,
      join(<< csvLine(<<<<"N","a","m","e">>, <<"T","e","a","m">>>>), csvLine(<<<<"A","d","a">>, <<"G","r","o","w","t","h">>>>) >>, <<"\n">>),
      join(<< csvLine(<<RespondentIdHeader, quoted(DISPLAY_CONFIG.aiUsage.title)>>),
              csvLine(<<<<"r","1">>, quoted(<<"W","r","i","t","i","n","g"," ","e","m","a","i","l","s",","," ","c","a",
          "p","t","i","o","n","s",","," ","o","r"," ","c","a","m","p","a","i","g",
          "n"," ","c","o","p","y">>)>>),
              <<>>,
              csvLine(<<<<"r","2">>, <<"G","e","n","e","r","a","t","i","n","g"," ","i","m","a","g","e","s"," ",
          "o","r"," ","v","i","d","e","o">>>>) >>, <<"\r", "\n">>),
      join(<< csvLine(<<quoted(DISPLAY_CONFIG.topPriority.title)>>),
              csvLine(<<<<"N","e","t","w","o","r","k","i","n","g">>>>),
              csvLine(<<<<"L","e","a","r","n","i","n","g"," ","f","r","o","m"," ","g","u","e","s",
          "t"," ","s","p","e","a","k","e","r","s">>>>) >>, <<"\n">>) }

(***************************************************************************)
(* onRequest                                                               *)
(***************************************************************************)
InitRequest ==
    /\ env \in Envs
    /\ diag = [steps |-> <<>>, fields |-> {}]
    /\ site = "none"
    /\ fb = [questions |-> <<>>]
    /\ replies = <<>>
    /\ headers = <<>>
    /\ rows = <<>>
    /\ questions = <<>>
    /\ answer = <<>>
    /\ canonicalList = <<>>
    /\ matchResult = noMatch
    /\ columnIndex = noIndex
    /\ pc = "onRequest"

\* onRequest from its entry to its first await or return: reading
\* context.env.SHEET_ID of an undefined env throws into the catch
CheckEnv ==
    /\ pc = "onRequest"
    /\ IF ~env.present
       THEN /\ replies' = Append(replies, unhandledResponse(diag))
            /\ diag' = setField(diag, "unhandled")
            /\ pc' = "returned"
            /\ UNCHANGED <<site, fb>>
       ELSE IF env.SHEET_ID = <<>>
       THEN /\ callCsvFallback(setField(pushStep(diag, "check-env"), "error"), "fb", <<>>)
            /\ UNCHANGED replies
       ELSE IF env.GOOGLE_API_KEY = <<>>
       THEN /\ callCsvFallback(setField(pushStep(diag, "check-env"), "warning"),
                               "fb2", env.SHEET_ID)
            /\ UNCHANGED replies
       ELSE /\ diag' = pushStep(pushStep(diag, "check-env"), "fetch-sheets-api")
            /\ pc' = "await fetch(url)"
            /\ UNCHANGED <<site, fb, replies>>
    /\ UNCHANGED <<env, headers, rows, questions, answer, canonicalList, matchResult, columnIndex>>

\* fetch(url) settles: rejected, or fulfilled with r.ok false or true
SheetsFetchSettles ==
    /\ pc = "await fetch(url)"
    /\ \E outcome \in {"rejected", "not ok", "ok"} :
          CASE outcome = "rejected" ->
                 callCsvFallback(setField(diag, "sheets_api_error"), "fb3", env.SHEET_ID)
            [] outcome = "not ok" ->
                 callCsvFallback(setField(setField(diag, "sheets_api_status"),
                                          "sheets_api_error"), "fb3", env.SHEET_ID)
            [] outcome = "ok" ->
                 /\ diag' = setField(diag, "sheets_api_status")
                 /\ pc' = "await r.json()"
                 /\ UNCHANGED <<site, fb>>
    /\ UNCHANGED <<env, replies, headers, rows, questions, answer, canonicalList, matchResult, columnIndex>>


\* lines 57-71 of onRequest: the header row is the first row with text, the
\* rows are those after it (cells: a null row has none to read)
parseApiValues(apiJson) ==
    LET values      == valuesOf(apiJson)
        headerIndex == findHeaderIndex(values)
        jsonRows    == slice(values, headerIndex + 1)
    IN  IF headerIndex = -1
        THEN [headerIndex |-> -1, headers |-> <<>>, jsonRows |-> <<>>, rows |-> <<>>]
        ELSE [headerIndex |-> headerIndex,
              headers  |-> [i \in 1..Len(values[headerIndex + 1].cells) |->
                               trim(values[headerIndex + 1].cells[i])],
              jsonRows |-> jsonRows,
              rows     |-> [i \in 1..Len(jsonRows) |-> jsonRows[i].cells]]

\* r.json() settles: rejected into the inner catch, or fulfilled with
\* apiJson; then onRequest runs on to its next await or return
JsonSettles ==
    /\ pc = "await r.json()"
    /\ \/ /\ callCsvFallback(setField(diag, "sheets_api_error"), "fb3", env.SHEET_ID)
          /\ UNCHANGED <<replies, headers, rows, questions>>
       \/ \E apiJson \in ApiJsons, seed \in Seeds :
          \E grid \in {parseApiValues(apiJson)} :
          \E qs \in {IF grid.headerIndex = -1 \/ buildThrows(grid.headers, grid.jsonRows)
                     THEN <<>>
                     ELSE buildQuestionsFromHeadersAndRows(grid.headers, grid.rows, seed)} :
             LET parsing == setField(pushStep(diag, "parse-api-values"), "row_count")
                 parsed  == setField(setField(parsing, "detected_header_row"),
                                     "detected_headers_preview")
             IN  IF grid.headerIndex = -1
                 THEN /\ callCsvFallback(setField(parsing, "parse_error"), "fb4", env.SHEET_ID)
                      /\ UNCHANGED <<replies, headers, rows, questions>>
                 ELSE IF buildThrows(grid.headers, grid.jsonRows)
                 THEN /\ replies' = Append(replies, unhandledResponse(parsed))
                      /\ diag' = setField(parsed, "unhandled")
                      /\ pc' = "returned"
                      /\ headers' = grid.headers
                      /\ rows' = grid.rows
                      /\ UNCHANGED <<site, fb, questions>>
                 ELSE IF aggregationEmpty(qs)
                 THEN /\ callCsvFallback(setField(parsed, "aggregation_note"), "fb5",
                                         env.SHEET_ID)
                      /\ headers' = grid.headers
                      /\ rows' = grid.rows
                      /\ questions' = qs
                      /\ UNCHANGED replies
                 ELSE /\ replies' = Append(replies,
                             ok([success |-> TRUE,
                                 message |-> successMessage,
                                 questions |-> qs, diagnostics |-> parsed]))
                      /\ diag' = parsed
                      /\ pc' = "returned"
                      /\ headers' = grid.headers
                      /\ rows' = grid.rows
                      /\ questions' = qs
                      /\ UNCHANGED <<site, fb>>
    /\ UNCHANGED <<env, answer, canonicalList, matchResult, columnIndex>>

\* fetch of the CSV export settles, in tryCsvFallback: rejected, or
\* fulfilled with r.ok false or true
CsvFetchSettles ==
    /\ pc = "await fetch(csv)"
    /\ \E outcome \in {"rejected", "not ok", "ok"} :
          CASE outcome = "rejected" ->
                 /\ diag' = setField(diag, "csv_error")
                 /\ pc' = "await tryCsvFallback"
            [] outcome = "not ok" ->
                 /\ diag' = setField(setField(diag, "csv_status"), "csv_error")
                 /\ pc' = "await tryCsvFallback"
            [] outcome = "ok" ->
                 /\ diag' = setField(diag, "csv_status")
                 /\ pc' = "await r.text()"
    /\ UNCHANGED <<env, site, fb, replies, headers, rows, questions, answer, canonicalList,
                   matchResult, columnIndex>>

\* r.text() settles, in tryCsvFallback: rejected into its catch, or
\* fulfilled with the text, which is parsed and aggregated into out.questions
CsvTextSettles ==
    /\ pc = "await r.text()"
    /\ \/ /\ diag' = setField(diag, "csv_error")
          /\ UNCHANGED fb
       \/ \E csv \in CsvTexts, seed \in Seeds :
          \E parsed \in {parseCsv(csv)} :
             /\ diag' = setField(diag, "csv_headers_preview")
             /\ fb' = [questions |->
                         buildQuestionsFromHeadersAndRows(parsed.headers, parsed.rows, seed)]
    /\ pc' = "await tryCsvFallback"
    /\ UNCHANGED <<env, site, replies, headers, rows, questions, answer, canonicalList,
                   matchResult, columnIndex>>

\* the returns after tryCsvFallback, had they reported success whenever the
\* fallback produced questions
fallbackResponse_successWhenQuestions(s, d, out) ==
    ok([success |-> out.questions # <<>>, message |-> fallbackMessage(s),
        diagnostics |-> d, questions |-> out.questions])

\* return ok({ success: false, message: ..., diagnostics: diag, questions: fb.questions })
fallbackResponse(s, d, out) ==
    ok([success |-> FALSE, message |-> fallbackMessage(s),
        diagnostics |-> d, questions |-> out.questions])

\* the promise of tryCsvFallback is fulfilled with out, and onRequest
\* returns at its call site
FallbackReturns ==
    /\ pc = "await tryCsvFallback"
    /\ replies' = Append(replies, fallbackResponse(site, diag, fb))
    /\ pc' = "returned"
    /\ UNCHANGED <<env, diag, site, fb, headers, rows, questions, answer, canonicalList,
                   matchResult, columnIndex>>

NextRequest ==
    \/ CheckEnv
    \/ SheetsFetchSettles
    \/ JsonSettles
    \/ CsvFetchSettles
    \/ CsvTextSettles
    \/ FallbackReturns

SpecRequest == InitRequest /\ [][NextRequest]_vars

\* every await of an invocation settles
SpecRequestLive == SpecRequest /\ WF_vars(NextRequest)


(***************************************************************************)
(* Claims about onRequest                                                  *)
(***************************************************************************)
\* how many times tryCsvFallback was entered: it pushes "csv-fallback" first
FallbackInvocations ==
    Cardinality({i \in 1..Len(diag.steps) : diag.steps[i] = "csv-fallback"})

\* the diag field onRequest sets before the call of tryCsvFallback at a site
PrimaryFailure ==
    [fb  |-> "error", fb2 |-> "warning", fb3 |-> "sheets_api_error",
     fb4 |-> "parse_error", fb5 |-> "aggregation_note"]

PrimaryPending == pc \in {"await fetch(url)", "await r.json()"}

\* C13: in one invocation of onRequest tryCsvFallback is entered at most
\* once; it is not entered while the primary fetch or the reading of its
\* body is pending; when it was entered, the primary side had failed (the
\* diag field of its call site is set: missing SHEET_ID, missing API key,
\* Sheets API error, no non-empty row, or zero questions aggregated) and the
\* primary path holds no question; a success reply never follows it.
C13_FallbackOnceAfterPrimaryFailure ==
    /\ FallbackInvocations <= 1
    /\ FallbackInvocations = 1 <=> site \in DOMAIN PrimaryFailure
    /\ PrimaryPending => FallbackInvocations = 0
    /\ FallbackInvocations = 1 =>
          /\ PrimaryFailure[site] \in diag.fields
          /\ ~PrimaryPending
          /\ questions = <<>>
          /\ \A i \in 1..Len(replies) : ~replies[i].body.success
    /\ questions # <<>> => FallbackInvocations = 0

\* the fallback ran to its end after the primary aggregation came out empty
C13_Witness ==
    /\ pc = "returned"
    /\ site = "fb5"
    /\ "csv_headers_preview" \in diag.fields
    /\ rows # <<>>


\* tryCsvFallback took its catch
FallbackFailed == "csv_error" \in diag.fields

FallbackMessages == {fallbackMessage(s) : s \in DOMAIN PrimaryFailure}

\* C14: when the primary source failed and tryCsvFallback failed too (no
\* SHEET_ID, fetch rejected, status not OK, or r.text() rejected), the
\* failure stays inside tryCsvFallback (diag.unhandled is not set), the
\* object it hands back has no question, and the response onRequest returns
\* has an empty questions list and one of the five non-empty messages.
C14_BothFailEmptyListWithMessage ==
    FallbackFailed =>
        /\ FallbackInvocations = 1
        /\ PrimaryFailure[site] \in diag.fields
        /\ "unhandled" \notin diag.fields
        /\ fb.questions = <<>>
        /\ pc \in {"await tryCsvFallback", "returned"}
        /\ pc = "returned" =>
              /\ Len(replies) = 1
              /\ "questions" \in DOMAIN replies[1].body
              /\ replies[1].body.questions = <<>>
              /\ Len(replies[1].body.message) > 0
              /\ replies[1].body.message \in FallbackMessages

\* the Sheets API answered with an error status and so did the CSV export
C14_Witness ==
    /\ pc = "returned"
    /\ site = "fb3"
    /\ {"sheets_api_status", "sheets_api_error", "csv_status", "csv_error"} \subseteq diag.fields
    /\ Len(replies) = 1


\* C15: every response onRequest returns with success = false has status
\* 200 and a body with a message string and a questions list.
C15_FailureEnvelope ==
    \A i \in 1..Len(replies) :
        ~replies[i].body.success =>
            /\ replies[i].status = 200
            /\ "message" \in DOMAIN replies[i].body
            /\ Len(replies[i].body.message) > 0
            /\ "questions" \in DOMAIN replies[i].body


\* a catch block of onRequest or tryCsvFallback ran
ExceptionCaught == diag.fields \cap {"unhandled", "sheets_api_error", "csv_error"} # {}

\* C16: whatever the primary fetch, the reading of its body, the fallback
\* fetch and the aggregation do (the aggregation throwing on a null row
\* included), onRequest returns: at no time has it returned more than one
\* response, it has returned exactly one once it is over, a response
\* returned after a catch block ran has success = false, and it is
\* eventually over.
C16_EventuallyOneResponse ==
    /\ [](/\ Len(replies) <= 1
          /\ pc = "returned" <=> Len(replies) = 1
          /\ (pc = "returned" /\ ExceptionCaught) => ~replies[1].body.success)
    /\ <>[](pc = "returned" /\ Len(replies) = 1)

\* the aggregation threw on a null row of the primary grid and onRequest
\* has answered
C16_Witness ==
    /\ pc = "returned"
    /\ "unhandled" \in diag.fields
    /\ "detected_header_row" \in diag.fields
    /\ Len(replies) = 1
    /\ ~replies[1].body.success


\* C17: the question list buildQuestionsFromHeadersAndRows returns for a
\* grid is the same in every run of Math.random: questions, their order,
\* buckets, counts, percentages, total_responses and other_responses.
C17_SameGridSameQuestions ==
    pc = "built" =>
        \A seed \in Seeds : buildQuestionsFromHeadersAndRows(headers, rows, seed) = questions

\* a question was emitted for a column that two rows without a respondent
\* id answered: each of them was keyed by a draw of Math.random
C17_Witness ==
    /\ pc = "built"
    /\ \E k \in ConfigKeys \ {"confidence"} :
          /\ Emitted(k)
          /\ \E i, j \in AnsweredRows(k) :
                i # j /\ RespondentIdAt(i) = <<>> /\ RespondentIdAt(j) = <<>>


\* the respondent denominator of the question of kind k
Denominator(k) ==
    IF k = "confidence" THEN Cardinality(UNION {ScaleRows(n) : n \in 1..5})
    ELSE Respondents(k)

\* C18: every question in the result has total_responses >= 1, and a
\* question of any of the six kinds whose column is located but whose
\* respondent denominator is 0 is not in the result.
C18_NoQuestionWithZeroRespondents ==
    pc = "built" =>
        /\ \A i \in 1..Len(questions) : questions[i].total_responses >= 1
        /\ \A k \in ConfigKeys :
              (Column(k) > -1 /\ Denominator(k) = 0) => ~Emitted(k)

\* a grid with rows in which one located question has no respondent and is
\* left out while another question is emitted
C18_Witness ==
    /\ pc = "built"
    /\ rows # <<>>
    /\ \E k \in ConfigKeys : Column(k) > -1 /\ Denominator(k) = 0 /\ ~Emitted(k)
    /\ \E k \in ConfigKeys : Emitted(k)


(***************************************************************************)
(* Multi-select cells made of canonical options alone: the options a       *)
(* respondent ticked, in the order ticked, joined by ", ".  SpecSelect     *)
(* hands such a cell to matchCanonicalOptions, and aggregates the grid of  *)
(* one row with that cell and one row with an empty cell.                  *)
(***************************************************************************)
isInjective(sel) == \A i, j \in 1..Len(sel) : i # j => sel[i] # sel[j]

\* the ways to tick 1..MaxSelected distinct options out of n
Selections(n) ==
    {sel \in UNION {[1..m -> 1..n] : m \in 1..MaxSelected} : isInjective(sel)}

SelectedCells ==
    [k \in MultipleChoiceKeys |->
        {[options |-> {DISPLAY_CONFIG[k].order[sel[i]] : i \in 1..Len(sel)},
          cell    |-> join([i \in 1..Len(sel) |-> DISPLAY_CONFIG[k].order[sel[i]]],
                           <<",", " ">>)] :
            sel \in Selections(Len(DISPLAY_CONFIG[k].order))}]

InitSelect ==
    /\ \E k \in MultipleChoiceKeys : \E ticked \in SelectedCells[k] :
          /\ headers = <<DISPLAY_CONFIG[k].title>>
          /\ rows = << <<ticked.cell>>, <<<<>>>> >>
          /\ answer = ticked.cell
          /\ canonicalList = DISPLAY_CONFIG[k].order
    /\ questions = <<>>
    /\ matchResult = noMatch
    /\ pc \in {"cell", "rows"}
    /\ NoRequest
    /\ columnIndex = noIndex

NextSelect == Match \/ Aggregate

SpecSelect == InitSelect /\ [][NextSelect]_vars

\* the question kind whose option list is canonicalList
ListKey == CHOOSE k \in MultipleChoiceKeys : DISPLAY_CONFIG[k].order = canonicalList

\* the options joined in the cell
Ticked == (CHOOSE ticked \in SelectedCells[ListKey] : ticked.cell = answer).options

\* C19: for a cell that is a ', '-joined list of distinct canonical options
\* of its question, matchCanonicalOptions returns those options and no
\* others as hits, each once, and no leftovers; aggregated, the question
\* has a bucket of count 1 for each of them, no other bucket, no 'Other',
\* no other_responses, and the row with the empty cell is not counted:
\* total_responses is 1.
C19_JoinedOptionsAreTheHits ==
    /\ pc = "matched" =>
          /\ {matchResult.hits[i] : i \in 1..Len(matchResult.hits)} = Ticked
          /\ Len(matchResult.hits) = Cardinality(Ticked)
          /\ matchResult.leftovers = <<>>
    /\ pc = "built" =>
          /\ Len(questions) = 1
          /\ questions[1].total_responses = 1
          /\ questions[1].other_responses = undefined
          /\ {questions[1].responses[j].text : j \in 1..Len(questions[1].responses)} = Ticked
          /\ Len(questions[1].responses) = Cardinality(Ticked)
          /\ \A j \in 1..Len(questions[1].responses) : questions[1].responses[j].count = 1

\* two options ticked against their order in the list, the first of them
\* with a comma in its own label: matched, and aggregated
C19_Witness ==
    /\ pc \in {"matched", "built"}
    /\ Cardinality(Ticked) = 2
    /\ \E o \in Ticked : includes(o, <<",">>) /\ indexOf(answer, o) = 0
    /\ pc = "matched" => Len(matchResult.hits) = 2 /\ matchResult.hits[2] = SubSeq(answer, 1, Len(matchResult.hits[2]))
    /\ pc = "built" => Len(questions) = 1


\* the label and the aliases of an option: [opt].concat(ALIASES[opt] || [])
NamesOf(opt) == {opt} \cup {ALIASES(opt)[a] : a \in 1..Len(ALIASES(opt))}

\* C20: for every option among the hits, no label or alias of it that
\* occurs in the cell (letter case ignored) occurs in any of the leftovers
\* returned with the hits.
C20_MatchedTextNotLeftover ==
    pc = "matched" =>
        \A h \in 1..Len(matchResult.hits) :
            \A name \in NamesOf(matchResult.hits[h]) :
                includes(toLowerCase(answer), toLowerCase(name)) =>
                    \A l \in 1..Len(matchResult.leftovers) :
                        ~includes(toLowerCase(matchResult.leftovers[l]), toLowerCase(name))


(***************************************************************************)
(* Multi-select cells that are not a plain list of options: blank cells,   *)
(* placeholders, an option named twice, an option in another letter case   *)
(* or typed with a typographic apostrophe.  SpecCells hands such a cell to *)
(* matchCanonicalOptions, and aggregates the grid of one ordinary row      *)
(* followed by a row with that cell.                                       *)
(***************************************************************************)
BlankCells == { <<" ">>, <<"\t"," "," ">> }

PlaceholderCells == { <<"(","e","m","p","t","y",")">>, <<"(","E","m","p","t","y",")">>, <<"n","a">>, <<" ","N","A"," ">> }

\* the label with every straight apostrophe typed as U+2019
curly(label) == [i \in 1..Len(label) |-> IF label[i] = "'" THEN "U+2019" ELSE label[i]]

OddCells ==
    [k \in MultipleChoiceKeys |->
        LET order == DISPLAY_CONFIG[k].order
        IN  BlankCells \cup PlaceholderCells
              \cup { order[1] \o <<","," ">> \o toLowerCase(order[1]),
                     toUpperCase(order[2]),
                     toLowerCase(order[3]),
                     curly(order[Len(order)]) }
              \cup { curly(order[i]) : i \in {j \in 1..Len(order) : includes(order[j], <<"'">>)} }
              \cup UNION { { order[i] \o <<","," ">> \o ALIASES(order[i])[1],
                             ALIASES(order[i])[2] \o <<","," ">> \o toUpperCase(ALIASES(order[i])[2]) } :
                           i \in {j \in 1..Len(order) : Len(ALIASES(order[j])) = 2} }]

InitCells ==
    /\ \E k \in MultipleChoiceKeys :
       \E odd \in OddCells[k], base \in {<<>>, DISPLAY_CONFIG[k].order[4]} :
          /\ headers = <<DISPLAY_CONFIG[k].title>>
          /\ rows = << <<base>>, <<odd>> >>
          /\ answer = odd
          /\ canonicalList = DISPLAY_CONFIG[k].order
    /\ questions = <<>>
    /\ matchResult = noMatch
    /\ pc \in {"cell", "rows"}
    /\ NoRequest
    /\ columnIndex = noIndex

NextCells == Match \/ Aggregate

SpecCells == InitCells /\ [][NextCells]_vars

isBlank(a) == trim(a) = <<>>

isTrivialPlaceholder(a) == toLowerCase(trim(a)) \in { <<"(","e","m","p","t","y",")">>, <<"n","a">> }

\* C21: a multi-select cell that is only whitespace, or only '(empty)' or
\* 'na' in any letter case, is treated as an empty cell: the aggregate of
\* the grid is the aggregate of the same grid with that cell empty (same
\* option counts, same total_responses, same 'Other').
C21_PlaceholderCountsAsEmpty ==
    (pc = "built" /\ (isBlank(answer) \/ isTrivialPlaceholder(answer))) =>
        \A seed \in Seeds :
            questions = buildQuestionsFromHeadersAndRows(headers, <<rows[1], <<<<>>>> >>, seed)


\* the cell names the option: its label or one of its aliases occurs in it,
\* letter case ignored
Mentions(a, opt) ==
    \E name \in NamesOf(opt) : includes(toLowerCase(a), toLowerCase(name))

\* C22: matchCanonicalOptions returns every option at most once among the
\* hits, and only options the cell names; aggregated, the count of an
\* option is the number of rows whose cell names it, however often the
\* cell names it (label twice, or label and alias).
C22_OptionCountedOncePerCell ==
    /\ pc = "matched" =>
          /\ \A i, j \in 1..Len(matchResult.hits) :
                i # j => matchResult.hits[i] # matchResult.hits[j]
          /\ \A i \in 1..Len(canonicalList) :
                Mentions(answer, canonicalList[i])
                    <=> \E h \in 1..Len(matchResult.hits) : matchResult.hits[h] = canonicalList[i]
    /\ pc = "built" =>
          \A q \in 1..Len(questions) : \A i \in 1..Len(canonicalList) :
              LET naming == {r \in 1..Len(rows) : Mentions(get(rows[r], 0), canonicalList[i])}
                  bucket == {b \in 1..Len(questions[q].responses) :
                                questions[q].responses[b].text = canonicalList[i]}
              IN  /\ Cardinality(bucket) = IF naming = {} THEN 0 ELSE 1
                  /\ \A b \in bucket : questions[q].responses[b].count = Cardinality(naming)

\* a cell that names one option by its label and again by an alias, matched
\* to one hit or aggregated into a bucket of count 1
C22_Witness ==
    /\ \E i \in 1..Len(canonicalList) :
          /\ Len(ALIASES(canonicalList[i])) = 2
          /\ answer = canonicalList[i] \o <<","," ">> \o ALIASES(canonicalList[i])[1]
          /\ pc = "matched" => matchResult.hits = <<canonicalList[i]>>
          /\ pc = "built" =>
                \E b \in 1..Len(questions[1].responses) :
                    /\ questions[1].responses[b].text = canonicalList[i]
                    /\ questions[1].responses[b].count = 1
    /\ pc \in {"matched", "built"}


isScaleQuestion(q) == q.question = questionTitle("confidence")

\* the rows whose cell in the scale column is an integer in 1..5
IntegerScaleRows ==
    LET good == UNION {ScaleRows(n) : n \in 1..5}
    IN  [j \in 1..Cardinality(good) |->
            rows[CHOOSE i \in good : Cardinality({g \in good : g < i}) = j - 1]]

\* C23: rows whose scale cell is not an integer in 1..5 (text, out of range,
\* fractional, or no such cell) are skipped one by one: the scale question
\* in the result is the one aggregated from the remaining rows alone.
C23_BadScaleCellsSkipped ==
    (pc = "built" /\ Column("confidence") > -1) =>
        \A seed \in Seeds :
            SelectSeq(questions, isScaleQuestion)
              = SelectSeq(buildQuestionsFromHeadersAndRows(headers, IntegerScaleRows, seed),
                          isScaleQuestion)


\* the answers typed in the go-to-tool column whose normalized label has a
\* share below 10 and is folded into 'Other'
FoldedToolAnswers ==
    LET colIdx  == Column("goToTool")
        mapTool == tallyTools(rows, colIdx, <<>>)
        total   == QuestionOf("goToTool").total_responses
        small   == {mapTool[n].key : n \in {m \in 1..Len(mapTool) :
                                               Percentage(mapTool[m].value, total) < 10}}
        typed   == UNION {{toolItems(get(rows[i], colIdx))[j] :
                              j \in 1..Len(toolItems(get(rows[i], colIdx)))} :
                          i \in 1..Len(rows)}
    IN  {x \in typed : normalizeTool(x) \in small}

\* C24: in the go-to-tool question other_responses lists the answers folded
\* into 'Other' as the respondents typed them, each once.
C24_OtherListsTypedAnswers ==
    (pc = "built" /\ Emitted("goToTool")
       /\ QuestionOf("goToTool").other_responses # undefined) =>
        LET pieces == split(QuestionOf("goToTool").other_responses, ",")
        IN  /\ {trim(pieces[i]) : i \in 1..Len(pieces)} = FoldedToolAnswers
            /\ Len(pieces) = Cardinality(FoldedToolAnswers)


\* the text with typographic apostrophes and quotes typed straight
straighten(a) ==
    [i \in 1..Len(a) |->
        IF a[i] \in {"U+2018", "U+2019"} THEN "'"
        ELSE IF a[i] \in {"U+201C", "U+201D"} THEN "\""
        ELSE a[i]]

\* C25: a cell that differs from a canonical option only by letter case or
\* by typographic instead of straight apostrophes and quotes is a hit for
\* that option and leaves no leftover.
C25_QuotesAndCaseNormalized ==
    pc = "matched" =>
        \A i \in 1..Len(canonicalList) :
            toLowerCase(straighten(answer)) = toLowerCase(canonicalList[i]) =>
                /\ matchResult.hits = <<canonicalList[i]>>
                /\ matchResult.leftovers = <<>>


(***************************************************************************)
(* indexByHeader over header rows of every shape: the question columns in  *)
(* any order, twice, in capitals, beside unrelated columns.                *)
(***************************************************************************)
MaxHeaders == 3

HeaderPool ==
    { DISPLAY_CONFIG.aiUsage.title,
      toUpperCase(DISPLAY_CONFIG.aiUsage.title),
      <<"Q","2",":"," ">> \o toLowerCase(NEEDLES.goToTool) \o <<"?">>,
      DISPLAY_CONFIG.goToTool.title,
      SubSeq(NEEDLES.confidence, 1, Len(NEEDLES.confidence) - 1),
      <<"R","e","s","p","o","n","d","e","n","t"," ","I","D">>,
      <<>> }

HeaderRows == UNION { [1..n -> HeaderPool] : n \in 0..MaxHeaders }

InitHeaders ==
    /\ headers \in HeaderRows
    /\ rows = <<>>
    /\ questions = <<>>
    /\ answer = <<>>
    /\ canonicalList = <<>>
    /\ matchResult = noMatch
    /\ pc = "headers"
    /\ NoRequest
    /\ columnIndex = noIndex

\* var idx = indexByHeader(headers, NEEDLES)
IndexByHeader ==
    /\ pc = "headers"
    /\ columnIndex' = indexByHeader(headers, NEEDLES)
    /\ pc' = "indexed"
    /\ UNCHANGED <<headers, rows, questions, answer, canonicalList, matchResult>>
    /\ UNCHANGED requestVars

NextHeaders == IndexByHeader

SpecHeaders == InitHeaders /\ [][NextHeaders]_vars

\* the header contains the text at some offset, letter for letter once both
\* are put in one case
ContainsIgnoringCase(h, text) ==
    \E o \in 0..(Len(h) - Len(text)) :
        \A j \in 1..Len(text) : toLowerCase(<<h[o + j]>>) = toLowerCase(<<text[j]>>)

QualifyingHeaders(k) == {i \in 1..Len(headers) : ContainsIgnoringCase(headers[i], NEEDLES[k])}

\* C26: indexByHeader returns, for each question key, the smallest zero-based
\* index of a header that contains the key's matcher text ignoring letter
\* case, and -1 when no header contains it; the call leaves the headers as
\* they were.
C26_FirstMatchingColumn ==
    /\ [](pc = "indexed" =>
            \A k \in DOMAIN NEEDLES :
                /\ DOMAIN columnIndex = DOMAIN NEEDLES
                /\ QualifyingHeaders(k) = {} => columnIndex[k] = 0 - 1
                /\ QualifyingHeaders(k) # {} =>
                      /\ columnIndex[k] + 1 \in QualifyingHeaders(k)
                      /\ \A i \in QualifyingHeaders(k) : columnIndex[k] + 1 <= i)
    /\ [][pc = "headers" /\ pc' = "indexed" => headers' = headers]_vars

\* two columns qualify for one key, the first of them in capitals and not
\* the first column, and another key has no column
C26_Witness ==
    /\ pc = "indexed"
    /\ Len(headers) = 3
    /\ QualifyingHeaders("aiUsage") = {2, 3}
    /\ headers[2] = toUpperCase(DISPLAY_CONFIG.aiUsage.title)
    /\ columnIndex.aiUsage = 1
    /\ columnIndex.confidence = 0 - 1


\* C27: every bucket of every emitted question, the 'Other' bucket and the
\* go-to-tool buckets included, has a percentage between 0 and 100 and a
\* count of at most the question's total_responses.
C27_PercentageWithinHundred ==
    pc = "built" =>
        \A i \in 1..Len(questions) :
            \A j \in 1..Len(questions[i].responses) :
                /\ questions[i].responses[j].percentage >= 0
                /\ questions[i].responses[j].percentage <= 100
                /\ questions[i].responses[j].count <= questions[i].total_responses


\* C28: every emitted question has at least one bucket in its responses
\* list, also when every top-priority answer is non-canonical or a
\* multi-select cell leaves neither a hit nor a recorded leftover.
C28_ResponsesNeverEmpty ==
    pc = "built" =>
        \A i \in 1..Len(questions) :
            questions[i].total_responses >= 1 => Len(questions[i].responses) >= 1


\* C29: within one emitted question the bucket labels are pairwise distinct;
\* in particular at most one bucket is labelled 'Other', also when a go-to-tool
\* answer normalizes to the label 'Other'.
C29_BucketLabelsDistinct ==
    pc = "built" =>
        \A i \in 1..Len(questions) :
            \A j, l \in 1..Len(questions[i].responses) :
                j # l => questions[i].responses[j].text # questions[i].responses[l].text


\* the questions of the reply are those the fallback handed back
FromFallback(reply) ==
    /\ FallbackInvocations = 1
    /\ "questions" \in DOMAIN reply.body
    /\ reply.body.questions = fb.questions

\* C30: a response of onRequest has success = true only if it carries a
\* non-empty questions list, that list is the one aggregated from the
\* primary (Sheets API) grid, and tryCsvFallback was not entered in the
\* request; every response returned after tryCsvFallback was entered carries
\* the fallback's questions and has success = false, also when the fallback
\* produced questions.
C30_SuccessOnlyFromPrimary ==
    \A i \in 1..Len(replies) :
        /\ replies[i].body.success =>
              /\ "questions" \in DOMAIN replies[i].body
              /\ replies[i].body.questions # <<>>
              /\ replies[i].body.questions = questions
              /\ \E seed \in Seeds :
                    questions = buildQuestionsFromHeadersAndRows(headers, rows, seed)
              /\ "detected_header_row" \in diag.fields
              /\ FallbackInvocations = 0
              /\ site = "none"
        /\ FallbackInvocations = 1 =>
              /\ FromFallback(replies[i])
              /\ ~replies[i].body.success

\* the primary aggregation came out empty, the fallback produced questions
\* from the CSV export, and the response carries them with success = false
C30_Witness ==
    /\ pc = "returned"
    /\ site = "fb5"
    /\ Len(replies) = 1
    /\ fb.questions # <<>>
    /\ replies[1].body.questions = fb.questions
    /\ ~replies[1].body.success

====
